---- MODULE Spec2Model ----
(***************************************************************************)
(* Drone deconfliction: the conflict classifier of src/conflict_checks.py, *)
(* the path segmenter of src/models.py, the clock converter and the       *)
(* mission loader of src/utils.py and check_mission_conflicts of           *)
(* deconfliction_system.py.                                                *)
(*                                                                         *)
(* Numbers.  The program computes with Python floats.  The model computes  *)
(* with exact reals of the form  c0 + c1*d + c2*d^2 + c3*d^3 + c4*d^4,     *)
(* where d = 1e-10 and the c_i are integers; a coordinate is a pair        *)
(* <<c0, c1>>, so (50, 5.0000000001, 0) is <<50,0>>, <<5,1>>, <<0,0>>.     *)
(* Because every |c_i| stays far below 1e10, the sign of such a number is  *)
(* the sign of its first non-zero coefficient, so comparison is            *)
(* lexicographic and exact.  math.sqrt and the division by the squared     *)
(* segment length are not evaluated: a distance is carried as the fraction *)
(* num/den equal to its square, and  sqrt(num/den) < T  is decided as      *)
(* T > 0 /\ num < T*T*den.  Floating-point rounding error is not modelled. *)
(* Float overflow is: a coordinate may carry a third component, a multiple *)
(* of 1e200, and squaring a difference of such multiples raises.           *)
(***************************************************************************)
EXTENDS Integers, Sequences, FiniteSets, TLC

(* ------------------------------------------------------------------ *)
(* Bounds of the model                                                  *)
(* ------------------------------------------------------------------ *)
MaxWaypoints == 3      \* longest mission drawn in the "fleet" universe
MaxSims == 2           \* most simulated missions drawn in the "fleet" universe
MaxCalls == 3          \* invocations of find_conflicts in one behaviour
MaxHHMM == 2460        \* clock inputs are drawn from -MinusHHMM .. MaxHHMM
MinusHHMM == 3
MaxRawWaypoints == 3  \* longest primary waypoint list drawn from RawPoints

(* ------------------------------------------------------------------ *)
(* Exact arithmetic on c0 + c1*d + ... + c4*d^4, d = 1e-10              *)
(* ------------------------------------------------------------------ *)
Lift(c) == <<c[1], c[2], 0, 0, 0>>
PInt(n) == <<n, 0, 0, 0, 0>>
PAdd(p, q) == <<p[1] + q[1], p[2] + q[2], p[3] + q[3], p[4] + q[4], p[5] + q[5]>>
PSub(p, q) == <<p[1] - q[1], p[2] - q[2], p[3] - q[3], p[4] - q[4], p[5] - q[5]>>
PMul(p, q) ==
    <<p[1] * q[1],
      p[1] * q[2] + p[2] * q[1],
      p[1] * q[3] + p[2] * q[2] + p[3] * q[1],
      p[1] * q[4] + p[2] * q[3] + p[3] * q[2] + p[4] * q[1],
      p[1] * q[5] + p[2] * q[4] + p[3] * q[3] + p[4] * q[2] + p[5] * q[1]>>
Sgn(n) == IF n > 0 THEN 1 ELSE IF n < 0 THEN -1 ELSE 0
PSign(p) ==
    IF p[1] # 0 THEN Sgn(p[1])
    ELSE IF p[2] # 0 THEN Sgn(p[2])
    ELSE IF p[3] # 0 THEN Sgn(p[3])
    ELSE IF p[4] # 0 THEN Sgn(p[4])
    ELSE Sgn(p[5])
PLess(p, q) == PSign(PSub(p, q)) < 0
PAbs(p) == IF PSign(p) < 0 THEN PSub(PInt(0), p) ELSE p

(* FLOAT_TOLERANCE = 1e-9 = 10 * d *)
FLOAT_TOLERANCE == <<0, 10, 0, 0, 0>>

(* ------------------------------------------------------------------ *)
(* src/models.py                                                        *)
(* ------------------------------------------------------------------ *)
(* A waypoint as the conflict checks read it: the attributes x, y, z and *)
(* timestamp_minutes (conflict_checks.py lines 21-22 and 151-157).       *)
Wp(x, y, z, t) == [x |-> x, y |-> y, z |-> z, timestamp_minutes |-> t]

(* A variant whose loop stops one waypoint early. *)
get_path_segments_one_short(waypoints) ==
    IF Len(waypoints) >= 2
    THEN [i \in 1..(Len(waypoints) - 2) |-> <<waypoints[i], waypoints[i+1]>>]
    ELSE <<>>

(* A variant that makes a segment of a single waypoint. *)
get_path_segments_point_as_segment(waypoints) ==
    IF Len(waypoints) >= 2
    THEN [i \in 1..(Len(waypoints) - 1) |-> <<waypoints[i], waypoints[i+1]>>]
    ELSE [i \in 1..Len(waypoints) |-> <<waypoints[i], waypoints[i]>>]

(* The segments of a waypoint list: consecutive pairs, in mission order. *)
get_path_segments(waypoints) ==
    IF Len(waypoints) >= 2
    THEN [i \in 1..(Len(waypoints) - 1) |-> <<waypoints[i], waypoints[i+1]>>]
    ELSE <<>>

(* A variant of get_path_segments that pops the waypoints it pairs. *)
waypoints_after_popping(waypoints) ==
    IF Len(waypoints) >= 2 THEN <<waypoints[Len(waypoints)]>> ELSE waypoints

(* self.waypoints after get_path_segments: the method only reads it. *)
waypoints_after_segmenting(waypoints) == waypoints

(* ------------------------------------------------------------------ *)
(* src/conflict_checks.py: geometry                                     *)
(* ------------------------------------------------------------------ *)
Min(a, b) == IF a <= b THEN a ELSE b
Max(a, b) == IF a >= b THEN a ELSE b

_get_time_interval_for_segment(segment) ==
    <<Min(segment[1].timestamp_minutes, segment[2].timestamp_minutes),
      Max(segment[1].timestamp_minutes, segment[2].timestamp_minutes)>>

_subtract_vectors(v1, v2) ==
    [x |-> PSub(Lift(v1.x), Lift(v2.x)),
     y |-> PSub(Lift(v1.y), Lift(v2.y)),
     z |-> PSub(Lift(v1.z), Lift(v2.z))]

_dot_product(vec1, vec2) ==
    PAdd(PAdd(PMul(vec1.x, vec2.x), PMul(vec1.y, vec2.y)), PMul(vec1.z, vec2.z))

_vector_norm_sq(vec) ==
    PAdd(PAdd(PMul(vec.x, vec.x), PMul(vec.y, vec.y)), PMul(vec.z, vec.z))

(* A variant without the t > 1.0 branch: beyond seg_end it returns the   *)
(* distance to the line through the segment.                            *)
distance_point_to_segment_3d_unclamped(point, seg_start, seg_end) ==
    LET segment_vec == _subtract_vectors(seg_end, seg_start)
        point_to_start_vec == _subtract_vectors(point, seg_start)
        seg_len_sq == _vector_norm_sq(segment_vec)
        dot == _dot_product(point_to_start_vec, segment_vec)
    IN  IF PLess(seg_len_sq, FLOAT_TOLERANCE)
        THEN [num |-> _vector_norm_sq(point_to_start_vec), den |-> PInt(1)]
        ELSE IF PSign(dot) < 0
        THEN [num |-> _vector_norm_sq(point_to_start_vec), den |-> PInt(1)]
        ELSE [num |-> PSub(PMul(_vector_norm_sq(point_to_start_vec), seg_len_sq),
                           PMul(dot, dot)),
              den |-> seg_len_sq]

(* The squared distance from point to the segment, as num/den, den > 0.   *)
(* t = dot/seg_len_sq is not formed: t < 0 iff dot < 0 and t > 1 iff      *)
(* dot > seg_len_sq; for 0 <= t <= 1 the squared distance to the foot of  *)
(* the perpendicular is |w|^2 - dot^2/seg_len_sq.                         *)
distance_point_to_segment_3d(point, seg_start, seg_end) ==
    LET segment_vec == _subtract_vectors(seg_end, seg_start)
        point_to_start_vec == _subtract_vectors(point, seg_start)
        seg_len_sq == _vector_norm_sq(segment_vec)
        dot == _dot_product(point_to_start_vec, segment_vec)
    IN  IF PLess(seg_len_sq, FLOAT_TOLERANCE)
        THEN [num |-> _vector_norm_sq(point_to_start_vec), den |-> PInt(1)]
        ELSE IF PSign(dot) < 0
        THEN [num |-> _vector_norm_sq(point_to_start_vec), den |-> PInt(1)]
        ELSE IF PLess(seg_len_sq, dot)
        THEN [num |-> _vector_norm_sq(_subtract_vectors(point, seg_end)),
              den |-> PInt(1)]
        ELSE [num |-> PSub(PMul(_vector_norm_sq(point_to_start_vec), seg_len_sq),
                           PMul(dot, dot)),
              den |-> seg_len_sq]

(* sqrt(dist.num/dist.den) < limit *)
DistanceLess(dist, limit) ==
    /\ PSign(limit) > 0
    /\ PLess(dist.num, PMul(PMul(limit, limit), dist.den))

(* ------------------------------------------------------------------ *)
(* src/conflict_checks.py: the two conflict predicates                  *)
(* ------------------------------------------------------------------ *)
(* A variant that compares the distances with safety_buffer itself. *)
check_segment_spatial_conflict_no_tolerance(segment1, segment2, safety_buffer) ==
    LET limit == Lift(safety_buffer)
    IN  \/ DistanceLess(distance_point_to_segment_3d(segment1[1], segment2[1], segment2[2]), limit)
        \/ DistanceLess(distance_point_to_segment_3d(segment1[2], segment2[1], segment2[2]), limit)
        \/ DistanceLess(distance_point_to_segment_3d(segment2[1], segment1[1], segment1[2]), limit)
        \/ DistanceLess(distance_point_to_segment_3d(segment2[2], segment1[1], segment1[2]), limit)

(* A variant that first tests, as the two-dimensional version of the     *)
(* function does, whether the projections of the segments onto the xy    *)
(* plane cross.                                                          *)
Orientation(p, q, r) ==
    PSign(PSub(PMul(PSub(Lift(q.x), Lift(p.x)), PSub(Lift(r.y), Lift(p.y))),
               PMul(PSub(Lift(q.y), Lift(p.y)), PSub(Lift(r.x), Lift(p.x)))))
check_segment_spatial_conflict_with_intersects(segment1, segment2, safety_buffer) ==
    LET limit == PSub(Lift(safety_buffer), FLOAT_TOLERANCE)
    IN  \/ /\ Orientation(segment1[1], segment1[2], segment2[1]) *
                 Orientation(segment1[1], segment1[2], segment2[2]) < 0
           /\ Orientation(segment2[1], segment2[2], segment1[1]) *
                 Orientation(segment2[1], segment2[2], segment1[2]) < 0
        \/ DistanceLess(distance_point_to_segment_3d(segment1[1], segment2[1], segment2[2]), limit)
        \/ DistanceLess(distance_point_to_segment_3d(segment1[2], segment2[1], segment2[2]), limit)
        \/ DistanceLess(distance_point_to_segment_3d(segment2[1], segment1[1], segment1[2]), limit)
        \/ DistanceLess(distance_point_to_segment_3d(segment2[2], segment1[1], segment1[2]), limit)

(* A variant that takes the magnitude of safety_buffer. *)
check_segment_spatial_conflict_abs_buffer(segment1, segment2, safety_buffer) ==
    LET limit == PSub(PAbs(Lift(safety_buffer)), FLOAT_TOLERANCE)
    IN  \/ DistanceLess(distance_point_to_segment_3d(segment1[1], segment2[1], segment2[2]), limit)
        \/ DistanceLess(distance_point_to_segment_3d(segment1[2], segment2[1], segment2[2]), limit)
        \/ DistanceLess(distance_point_to_segment_3d(segment2[1], segment1[1], segment1[2]), limit)
        \/ DistanceLess(distance_point_to_segment_3d(segment2[2], segment1[1], segment1[2]), limit)

(* A variant that tests only the endpoints of segment1 against segment2. *)
check_segment_spatial_conflict_one_sided(segment1, segment2, safety_buffer) ==
    LET limit == PSub(Lift(safety_buffer), FLOAT_TOLERANCE)
    IN  \/ DistanceLess(distance_point_to_segment_3d(segment1[1], segment2[1], segment2[2]), limit)
        \/ DistanceLess(distance_point_to_segment_3d(segment1[2], segment2[1], segment2[2]), limit)

check_segment_spatial_conflict(segment1, segment2, safety_buffer) ==
    LET p1_start == segment1[1]
        p1_end == segment1[2]
        p2_start == segment2[1]
        p2_end == segment2[2]
        limit == PSub(Lift(safety_buffer), FLOAT_TOLERANCE)
    IN  IF DistanceLess(distance_point_to_segment_3d(p1_start, p2_start, p2_end), limit)
        THEN TRUE
        ELSE IF DistanceLess(distance_point_to_segment_3d(p1_end, p2_start, p2_end), limit)
        THEN TRUE
        ELSE IF DistanceLess(distance_point_to_segment_3d(p2_start, p1_start, p1_end), limit)
        THEN TRUE
        ELSE IF DistanceLess(distance_point_to_segment_3d(p2_end, p1_start, p1_end), limit)
        THEN TRUE
        ELSE FALSE

(* A variant that skips the temporal test. *)
check_spatio_temporal_segment_conflict_no_time(segment1, segment2, safety_buffer) ==
    check_segment_spatial_conflict(segment1, segment2, safety_buffer)

(* A variant that asks for the second window to start inside the first. *)
check_spatio_temporal_segment_conflict_start_inside(segment1, segment2, safety_buffer) ==
    IF ~check_segment_spatial_conflict(segment1, segment2, safety_buffer)
    THEN FALSE
    ELSE LET i1 == _get_time_interval_for_segment(segment1)
             i2 == _get_time_interval_for_segment(segment2)
         IN  (i1[1] <= i2[1]) /\ (i2[1] <= i1[2])

(* A variant whose overlap test is strict. *)
check_spatio_temporal_segment_conflict_strict(segment1, segment2, safety_buffer) ==
    IF ~check_segment_spatial_conflict(segment1, segment2, safety_buffer)
    THEN FALSE
    ELSE LET i1 == _get_time_interval_for_segment(segment1)
             i2 == _get_time_interval_for_segment(segment2)
         IN  (i1[1] < i2[2]) /\ (i2[1] < i1[2])

check_spatio_temporal_segment_conflict(segment1, segment2, safety_buffer) ==
    IF ~check_segment_spatial_conflict(segment1, segment2, safety_buffer)
    THEN FALSE
    ELSE LET i1 == _get_time_interval_for_segment(segment1)
             i2 == _get_time_interval_for_segment(segment2)
         IN  (i1[1] <= i2[2]) /\ (i2[1] <= i1[2])

(* A variant that compares x and y only. *)
check_waypoint_collision_xy(wp1, wp2) ==
    /\ wp1.timestamp_minutes = wp2.timestamp_minutes
    /\ PLess(PAbs(PSub(Lift(wp1.x), Lift(wp2.x))), FLOAT_TOLERANCE)
    /\ PLess(PAbs(PSub(Lift(wp1.y), Lift(wp2.y))), FLOAT_TOLERANCE)

check_waypoint_collision(wp1, wp2) ==
    IF wp1.timestamp_minutes # wp2.timestamp_minutes
    THEN FALSE
    ELSE LET x_match == PLess(PAbs(PSub(Lift(wp1.x), Lift(wp2.x))), FLOAT_TOLERANCE)
             y_match == PLess(PAbs(PSub(Lift(wp1.y), Lift(wp2.y))), FLOAT_TOLERANCE)
             z_match == PLess(PAbs(PSub(Lift(wp1.z), Lift(wp2.z))), FLOAT_TOLERANCE)
         IN  x_match /\ y_match /\ z_match

(* ------------------------------------------------------------------ *)
(* src/conflict_checks.py: find_conflicts, one simulated mission        *)
(* ------------------------------------------------------------------ *)
(* The (outer index, inner index) pairs of a nested enumerate loop, in   *)
(* the order the loop visits them; indices start at 0 as in Python.      *)
(* A variant with the two loops nested the other way round. *)
IndexPairs_inner_first(n, m) == [c \in 1..(n * m) |-> <<(c - 1) % n, (c - 1) \div n>>]

IndexPairs(n, m) == [c \in 1..(n * m) |-> <<(c - 1) \div m, (c - 1) % m>>]

(* A description string is modelled by the values formatted into it;     *)
(* sim is the position of the simulated mission in the input list, which *)
(* the string does not carry (instrumentation).                          *)
SegmentConflict(k, sim_mission, p_idx, p_segment, s_idx, s_segment) ==
    [kind |-> "SegmentConflict", sim |-> k,
     primary_index |-> p_idx,
     primary_time_window |-> _get_time_interval_for_segment(p_segment),
     other_drone_id |-> sim_mission.drone_id,
     other_index |-> s_idx,
     other_time_window |-> _get_time_interval_for_segment(s_segment)]

WaypointCollision(k, sim_mission, p_wp_idx, p_wp, s_wp_idx, s_wp) ==
    [kind |-> "WaypointCollision", sim |-> k,
     primary_index |-> p_wp_idx, primary_point |-> p_wp,
     other_drone_id |-> sim_mission.drone_id,
     other_index |-> s_wp_idx, other_point |-> s_wp]

(* Lines 194-198: the (p_idx, s_idx) pairs for which the combined check   *)
(* is true, in loop order.                                               *)
segment_hits(primary_segs, sim_mission, buffer) ==
    LET sim_segments == get_path_segments(sim_mission.waypoints)
        Hit(pr) == check_spatio_temporal_segment_conflict(
                       primary_segs[pr[1] + 1], sim_segments[pr[2] + 1], buffer)
    IN  SelectSeq(IndexPairs(Len(primary_segs), Len(sim_segments)), Hit)

(* A variant that stops at the first conflict of a simulated mission. *)
segment_loop_first_only(k, primary_segs, sim_mission, buffer) ==
    LET sim_segments == get_path_segments(sim_mission.waypoints)
        hits == segment_hits(primary_segs, sim_mission, buffer)
    IN  [n \in 1..(IF Len(hits) > 0 THEN 1 ELSE 0) |->
            SegmentConflict(k, sim_mission,
                            hits[n][1], primary_segs[hits[n][1] + 1],
                            hits[n][2], sim_segments[hits[n][2] + 1])]

(* Lines 194-205: the records appended by the segment loops for the      *)
(* simulated mission at position k.                                      *)
segment_loop(k, primary_segs, sim_mission, buffer) ==
    LET sim_segments == get_path_segments(sim_mission.waypoints)
        hits == segment_hits(primary_segs, sim_mission, buffer)
    IN  [n \in 1..Len(hits) |->
            SegmentConflict(k, sim_mission,
                            hits[n][1], primary_segs[hits[n][1] + 1],
                            hits[n][2], sim_segments[hits[n][2] + 1])]

(* Lines 211-217: the records appended by the waypoint loops. *)
waypoint_loop(k, primary_wps, sim_mission) ==
    LET sim_waypoints == sim_mission.waypoints
        Hit(pr) == check_waypoint_collision(primary_wps[pr[1] + 1],
                                            sim_waypoints[pr[2] + 1])
        hits == SelectSeq(IndexPairs(Len(primary_wps), Len(sim_waypoints)), Hit)
    IN  [n \in 1..Len(hits) |->
            WaypointCollision(k, sim_mission,
                              hits[n][1], primary_wps[hits[n][1] + 1],
                              hits[n][2], sim_waypoints[hits[n][2] + 1])]

(* ------------------------------------------------------------------ *)
(* src/utils.py: the clock converter                                    *)
(* ------------------------------------------------------------------ *)
(* raise ValueError(...): an outcome that carries no value. *)
ValueError(message) == [raised |-> TRUE, exception |-> "ValueError", message |-> message]
Returns(value) == [raised |-> FALSE, value |-> value]

(* A variant whose range test excludes 2359. *)
_parse_hhmm_to_minutes_below_2359(v) ==
    IF ~(0 <= v /\ v < 2359)
    THEN ValueError("Invalid HHMM time format")
    ELSE LET hour == v \div 100
             minute == v % 100
         IN  IF ~(0 <= hour /\ hour <= 23 /\ 0 <= minute /\ minute <= 59)
             THEN ValueError("Invalid HHMM time value")
             ELSE Returns(hour * 60 + minute)

(* A variant without the test of the decomposed hour and minute. *)
_parse_hhmm_to_minutes_unchecked_minute(v) ==
    IF ~(0 <= v /\ v <= 2359)
    THEN ValueError("Invalid HHMM time format")
    ELSE LET hour == v \div 100
             minute == v % 100
         IN  Returns(hour * 60 + minute)

(* Lines 11-12 raise for a value outside [0, 2359], lines 17-18 for an   *)
(* hour above 23 or a minute above 59; every argument is an int.         *)
_parse_hhmm_to_minutes(v) ==
    IF ~(0 <= v /\ v <= 2359)
    THEN ValueError("Invalid HHMM time format")
    ELSE LET hour == v \div 100
             minute == v % 100
         IN  IF ~(0 <= hour /\ hour <= 23 /\ 0 <= minute /\ minute <= 59)
             THEN ValueError("Invalid HHMM time value")
             ELSE Returns(hour * 60 + minute)

(* ------------------------------------------------------------------ *)
(* deconfliction_system.py: lines 53-57 and 68                          *)
(* ------------------------------------------------------------------ *)
mission_status(found, details) ==
    IF found
    THEN [status |-> "Conflict Detected", details |-> details]
    ELSE [status |-> "Clear", details |-> <<>>]

(* Lines 47-51: the exception of find_conflicts becomes the one detail. *)
error_during_check(e) ==
    [status |-> "Error During Check",
     details |-> <<[kind |-> "Error", exception |-> e.exception, message |-> e.message]>>]

(* ------------------------------------------------------------------ *)
(* Inputs                                                               *)
(* ------------------------------------------------------------------ *)
C(n) == <<n, 0>>                  \* the coordinate n
Cd(n, k) == <<n, k>>              \* the coordinate n + k * 1e-10
(* A float can be squared with ** only up to about 1.34e154 in           *)
(* magnitude; beyond, x ** 2 raises OverflowError.  A coordinate out of  *)
(* that range is written <<c0, c1, h>> for h * 1e200 + c0 + c1 * 1e-10.  *)
(* No arithmetic is done on it: the model decides only whether the       *)
(* difference of two coordinates is out of the range, which it is when   *)
(* their multiples of 1e200 differ.                                      *)
Big(c) == IF Len(c) = 3 THEN c[3] ELSE 0
C1e200 == <<0, 0, 1>>
P3(x, y, z, t) == Wp(C(x), C(y), C(z), t)

SeqsUpTo(S, n) == UNION {[1..k -> S] : k \in 0..n}
TimeOrdered(w) ==
    \A i \in 1..(Len(w) - 1) : w[i].timestamp_minutes <= w[i+1].timestamp_minutes

Mission(id, wps) == [drone_id |-> id, waypoints |-> wps]
SimId(k) == "sim_" \o ToString(k)
Fleet(lists) == [k \in 1..Len(lists) |-> Mission(SimId(k), lists[k])]
Input(p, s, b) == [primary |-> p, sims |-> s, buffer |-> b]

(* "fleet": several simulated missions over a few waypoints, every       *)
(* mission in non-decreasing time order as the loader delivers it.       *)
FleetPrimaries ==
    {<<>>,
     <<P3(100, 0, 0, 490)>>,
     <<P3(100, 0, 0, 490), P3(100, 0, 0, 490)>>,
     <<P3(0, 0, 0, 480), P3(100, 0, 0, 490), P3(10, 10, 5, 500)>>}
FleetSimPoints ==
    {P3(50, 3, 0, 486), P3(100, 0, 0, 490)}
FleetBuffers == {C(5)}
FleetInputs ==
    {Input(Mission("primary_01", pw), Fleet(sl), b) :
        pw \in FleetPrimaries,
        sl \in SeqsUpTo({w \in SeqsUpTo(FleetSimPoints, MaxWaypoints) : TimeOrdered(w)},
                        MaxSims),
        b \in FleetBuffers}

(* "pairs": one primary against one simulated mission of one or two      *)
(* waypoints, over the scenario points and points 1e-10 apart.           *)
PairPrimaries ==
    {<<P3(0, 0, 0, 480), P3(100, 0, 0, 490)>>, <<P3(10, 10, 5, 500)>>}
PairSimPoints ==
    {P3(50, -10, 0, 483), P3(50, 10, 0, 486),
     P3(50, -10, 0, 491), P3(50, 10, 0, 494),
     P3(50, 3, 0, 485), P3(50, 3, 0, 492),
     P3(10, 10, 5, 500), P3(10, 10, 9, 500), P3(10, 10, 5, 501),
     Wp(Cd(10, 5), C(10), C(5), 500),
     Wp(C(10), Cd(10, -9), C(5), 500),
     Wp(C(10), C(10), Cd(5, 10), 500),
     Wp(C(10), Cd(10, 11), C(5), 500)}
PairBuffers == {C(5)}
PairInputs ==
    {Input(Mission("primary_01", pw), Fleet(<<sw>>), b) :
        pw \in PairPrimaries,
        sw \in {w \in SeqsUpTo(PairSimPoints, 2) : Len(w) >= 1},
        b \in PairBuffers}

(* "margins": a primary of two waypoints against one simulated mission   *)
(* over its own waypoints and points 1e-10 apart, with a buffer of 5, 1, *)
(* 0 or -5.                                                              *)
MarginPrimaries == {<<P3(10, 10, 5, 500), P3(10, 10, 9, 500)>>}
MarginSimPoints ==
    {P3(10, 10, 5, 500), P3(10, 10, 9, 500), P3(10, 10, 5, 501),
     Wp(Cd(10, 5), C(10), C(5), 500),
     Wp(C(10), Cd(10, -9), C(5), 500),
     Wp(C(10), C(10), Cd(5, 10), 500),
     Wp(C(10), Cd(10, 11), C(5), 500)}
MarginBuffers == {C(5), C(1), C(0), C(-5)}
MarginInputs ==
    {Input(Mission("primary_01", pw), Fleet(<<sw>>), b) :
        pw \in MarginPrimaries,
        sw \in {w \in SeqsUpTo(MarginSimPoints, 2) : Len(w) >= 1},
        b \in MarginBuffers}

(* "replay": a few inputs that are invoked again and again. *)
ReplayInputs ==
    {Input(Mission("primary_01", <<P3(10, 10, 5, 500)>>),
           Fleet(<<<<P3(10, 10, 5, 500)>>>>), C(5)),
     Input(Mission("primary_01", <<P3(0, 0, 0, 480), P3(100, 0, 0, 490)>>),
           Fleet(<<<<P3(50, -10, 0, 483), P3(50, 3, 0, 486)>>>>), C(5)),
     Input(Mission("primary_01", <<P3(0, 0, 0, 480), P3(100, 0, 0, 490)>>),
           Fleet(<<<<P3(50, -10, 0, 483), P3(50, 10, 0, 486)>>>>), C(5)),
     Input(Mission("primary_01", <<P3(0, 0, 0, 480), P3(100, 0, 0, 490)>>),
           Fleet(<<<<P3(50, -10, 0, 483), P3(50, 3, 0, 486)>>,
                   <<P3(100, 0, 0, 490)>>>>), C(5)),
     Input(Mission("primary_01", <<P3(0, 0, 0, 480), P3(100, 0, 0, 490)>>),
           Fleet(<<<<Wp(C1e200, C(0), C(0), 481), Wp(C1e200, C(5), C(0), 482)>>>>),
           C(5))}

InputsOf(u) ==
    IF u = "fleet" THEN FleetInputs
    ELSE IF u = "pairs" THEN PairInputs
    ELSE IF u = "margins" THEN MarginInputs
    ELSE ReplayInputs

None == [none |-> TRUE]

(* ------------------------------------------------------------------ *)
(* Exceptions                                                           *)
(* ------------------------------------------------------------------ *)
KeyError(message) == [raised |-> TRUE, exception |-> "KeyError", message |-> message]
TypeError(message) == [raised |-> TRUE, exception |-> "TypeError", message |-> message]
FileNotFoundError(message) ==
    [raised |-> TRUE, exception |-> "FileNotFoundError", message |-> message]

(* The outcomes of a loop body run over a list: the loop stops at the    *)
(* first iteration that raises.                                          *)
Raised(results) == {i \in 1..Len(results) : results[i].raised}
FirstRaised(results) ==
    results[CHOOSE i \in Raised(results) : \A j \in Raised(results) : i <= j]
Values(results) == [i \in 1..Len(results) |-> results[i].value]

(* ------------------------------------------------------------------ *)
(* src/conflict_checks.py: what the calls raise                         *)
(* ------------------------------------------------------------------ *)
ZeroDivisionError(message) ==
    [raised |-> TRUE, exception |-> "ZeroDivisionError", message |-> message]
OverflowError(message) ==
    [raised |-> TRUE, exception |-> "OverflowError", message |-> message]

(* Lines 27-28 on the vector v1 - v2 of lines 21-22: vec['x']**2,        *)
(* vec['y']**2 or vec['z']**2 raises.                                    *)
squares_overflow(v1, v2) ==
    \/ Big(v1.x) # Big(v2.x)
    \/ Big(v1.y) # Big(v2.y)
    \/ Big(v1.z) # Big(v2.z)

(* Line 41 divides by seg_len_sq; it is reached only when line 36 found  *)
(* seg_len_sq >= 1e-9.                                                   *)
divides_by_zero(seg_start, seg_end) ==
    /\ ~PLess(_vector_norm_sq(_subtract_vectors(seg_end, seg_start)), FLOAT_TOLERANCE)
    /\ PSign(_vector_norm_sq(_subtract_vectors(seg_end, seg_start))) = 0

(* Lines 30-59 as a call: the value, or the exception of line 35, 37,    *)
(* 41, 44, 47 or 59.  When the segment vector can be squared and         *)
(* point - seg_start cannot, every branch squares a vector that differs  *)
(* from point - seg_start by at most the segment vector.                 *)
distance_point_to_segment_3d_call(point, seg_start, seg_end) ==
    IF squares_overflow(seg_end, seg_start)
    THEN OverflowError("(34, 'Numerical result out of range')")
    ELSE IF divides_by_zero(seg_start, seg_end)
    THEN ZeroDivisionError("float division by zero")
    ELSE IF squares_overflow(point, seg_start)
    THEN OverflowError("(34, 'Numerical result out of range')")
    ELSE Returns(distance_point_to_segment_3d(point, seg_start, seg_end))

(* Lines 78-101: what the comparison of one distance with the limit      *)
(* leaves to do: an exception of distance_point_to_segment_3d is not     *)
(* caught, a distance below the limit returns True, and otherwise the    *)
(* function goes on.                                                     *)
distance_decides(call, limit, otherwise) ==
    IF call.raised THEN call
    ELSE IF DistanceLess(call.value, limit) THEN Returns(TRUE)
    ELSE otherwise

(* Lines 78-101 as a call: the four distances are computed in turn, each *)
(* only when the ones before it returned and were not below the limit.   *)
check_segment_spatial_conflict_call(segment1, segment2, safety_buffer) ==
    distance_decides(
        distance_point_to_segment_3d_call(segment1[1], segment2[1], segment2[2]),
        PSub(Lift(safety_buffer), FLOAT_TOLERANCE),
    distance_decides(
        distance_point_to_segment_3d_call(segment1[2], segment2[1], segment2[2]),
        PSub(Lift(safety_buffer), FLOAT_TOLERANCE),
    distance_decides(
        distance_point_to_segment_3d_call(segment2[1], segment1[1], segment1[2]),
        PSub(Lift(safety_buffer), FLOAT_TOLERANCE),
    distance_decides(
        distance_point_to_segment_3d_call(segment2[2], segment1[1], segment1[2]),
        PSub(Lift(safety_buffer), FLOAT_TOLERANCE),
        Returns(FALSE)))))

(* Lines 126-133 on the outcome of the spatial check. *)
temporal_after(spatial, segment1, segment2) ==
    IF spatial.raised THEN spatial
    ELSE IF ~spatial.value THEN Returns(FALSE)
    ELSE Returns(/\ _get_time_interval_for_segment(segment1)[1]
                        <= _get_time_interval_for_segment(segment2)[2]
                 /\ _get_time_interval_for_segment(segment2)[1]
                        <= _get_time_interval_for_segment(segment1)[2])

(* Lines 122-133 as a call. *)
check_spatio_temporal_segment_conflict_call(segment1, segment2, safety_buffer) ==
    temporal_after(check_segment_spatial_conflict_call(segment1, segment2, safety_buffer),
                   segment1, segment2)

first_exception(outcomes) ==
    IF Raised(outcomes) # {} THEN FirstRaised(outcomes) ELSE None

(* The outcomes of the checks of lines 194-198 for the given index pairs. *)
segment_check_outcomes(pairs, primary_segs, sim_segments, buffer) ==
    [n \in 1..Len(pairs) |->
        check_spatio_temporal_segment_conflict_call(
            primary_segs[pairs[n][1] + 1], sim_segments[pairs[n][2] + 1], buffer)]

(* Lines 194-198: the exception that ends the segment loops for one      *)
(* simulated mission, that of the first pair in loop order whose check   *)
(* raises; None when no check raises.                                    *)
segment_loop_exception(primary_segs, sim_mission, buffer) ==
    first_exception(
        segment_check_outcomes(
            IndexPairs(Len(primary_segs), Len(get_path_segments(sim_mission.waypoints))),
            primary_segs, get_path_segments(sim_mission.waypoints), buffer))

(* ------------------------------------------------------------------ *)
(* Exact fractions                                                      *)
(* ------------------------------------------------------------------ *)
(* A float that is not an integer is carried as the fraction num/den of  *)
(* two numbers of the form c0 + c1*d + ..., den > 0.                     *)
RInt(n) == [num |-> PInt(n), den |-> PInt(1)]
RAdd(a, b) ==
    IF a.den = b.den
    THEN [num |-> PAdd(a.num, b.num), den |-> a.den]
    ELSE [num |-> PAdd(PMul(a.num, b.den), PMul(b.num, a.den)),
          den |-> PMul(a.den, b.den)]
RSub(a, b) == RAdd(a, [num |-> PSub(PInt(0), b.num), den |-> b.den])
RDivInt(a, n) == [num |-> a.num, den |-> PMul(a.den, PInt(n))]
RLess(a, b) == PLess(PMul(a.num, b.den), PMul(b.num, a.den))

(* The largest integer not above a fraction whose value is far below     *)
(* 1e10: the quotient of the leading coefficients, corrected by one.     *)
Lead(p) ==
    IF p[1] # 0 THEN 1 ELSE IF p[2] # 0 THEN 2 ELSE IF p[3] # 0 THEN 3
    ELSE IF p[4] # 0 THEN 4 ELSE 5
RFloor(r) ==
    LET q == r.num[Lead(r.den)] \div r.den[Lead(r.den)]
    IN  CHOOSE k \in {q - 1, q, q + 1} :
            /\ ~PLess(r.num, PMul(PInt(k), r.den))
            /\ PLess(r.num, PMul(PInt(k + 1), r.den))

(* Python's round() on a float: to the nearest integer, a tie to the     *)
(* even one.                                                             *)
round(r) ==
    LET f == RFloor(r)
        side == PSign(PSub(PMul(PInt(2), r.num), PMul(PInt(2 * f + 1), r.den)))
    IN  IF side < 0 THEN f
        ELSE IF side > 0 THEN f + 1
        ELSE IF f % 2 = 0 THEN f ELSE f + 1

(* ------------------------------------------------------------------ *)
(* src/models.py: constructing a Waypoint                               *)
(* ------------------------------------------------------------------ *)
(* The fields the dataclass declares, lines 9-11. *)
WaypointFields == {"x", "y", "timestamp_minutes"}

(* A call of Waypoint with the keyword arguments kwargs: the generated   *)
(* __init__ takes the declared fields and nothing else.                  *)
Waypoint(kwargs) ==
    IF ~(DOMAIN kwargs \subseteq WaypointFields)
    THEN TypeError("__init__() got an unexpected keyword argument")
    ELSE IF DOMAIN kwargs # WaypointFields
    THEN TypeError("__init__() missing required positional arguments")
    ELSE Returns(kwargs)

(* ------------------------------------------------------------------ *)
(* src/utils.py: load_missions_from_json                                *)
(* ------------------------------------------------------------------ *)
(* A JSON object is a record, `key in obj` is key \in DOMAIN obj.  Every *)
(* coordinate of the inputs is a number and every time an int, so the    *)
(* float() and int() conversions of lines 84-85, 115 and 121-122 leave   *)
(* the values as they are.                                               *)

(* Lines 56-62. *)
read_json(file) ==
    IF ~file.exists
    THEN FileNotFoundError("Input file not found")
    ELSE IF ~file.json_valid
    THEN ValueError("Invalid JSON format")
    ELSE Returns(file.content)

(* Lines 76-88: one waypoint of a simulated mission.  The except clause  *)
(* of line 87 turns a ValueError, TypeError or KeyError of lines 84-86   *)
(* into the ValueError of line 88.                                       *)
simulated_waypoint(wp_data) ==
    IF ~({"x", "y", "z", "timestamp"} \subseteq DOMAIN wp_data)
    THEN KeyError("Simulated waypoint missing 'x', 'y', 'z', or 'timestamp'")
    ELSE LET timestamp_minutes == _parse_hhmm_to_minutes(wp_data.timestamp)
         IN  IF timestamp_minutes.raised
             THEN ValueError("Invalid data in waypoint for simulated drone")
             ELSE LET waypoint == Waypoint([x |-> wp_data.x, y |-> wp_data.y,
                                            z |-> wp_data.z,
                                            timestamp_minutes |-> timestamp_minutes.value])
                  IN  IF waypoint.raised
                      THEN ValueError("Invalid data in waypoint for simulated drone")
                      ELSE waypoint

(* Line 91: list.sort by timestamp_minutes; the sort is stable. *)
RECURSIVE sort_by_timestamp(_)
sort_by_timestamp(wps) ==
    IF Len(wps) <= 1
    THEN wps
    ELSE LET sorted == sort_by_timestamp(SubSeq(wps, 1, Len(wps) - 1))
             last == wps[Len(wps)]
             k == Cardinality({i \in 1..Len(sorted) :
                      sorted[i].timestamp_minutes <= last.timestamp_minutes})
         IN  SubSeq(sorted, 1, k) \o <<last>> \o SubSeq(sorted, k + 1, Len(sorted))

(* Lines 72-92: one simulated mission. *)
simulated_mission(sim_data) ==
    IF ~({"drone_id", "waypoints"} \subseteq DOMAIN sim_data)
    THEN KeyError("Simulated mission data missing 'drone_id' or 'waypoints'")
    ELSE LET sim_waypoints ==
                 [i \in 1..Len(sim_data.waypoints) |->
                     simulated_waypoint(sim_data.waypoints[i])]
         IN  IF Raised(sim_waypoints) # {}
             THEN FirstRaised(sim_waypoints)
             ELSE Returns(Mission(sim_data.drone_id,
                                  sort_by_timestamp(Values(sim_waypoints))))

(* Lines 109-117: one raw waypoint of the primary mission. *)
raw_waypoint(wp) ==
    IF ~({"x", "y", "z"} \subseteq DOMAIN wp)
    THEN ValueError("Primary mission waypoint must be a dict with 'x', 'y', and 'z'")
    ELSE IF "timestamp" \in DOMAIN wp
    THEN ValueError("Primary mission waypoint should only contain 'x', 'y', 'z'")
    ELSE Returns([x |-> wp.x, y |-> wp.y, z |-> wp.z])

(* Lines 23-31.  math.sqrt is taken only of numbers whose root is again  *)
(* of the form c0 + c1*d: a leg along one axis has the length of its one *)
(* coordinate difference, any other leg of the inputs has integer        *)
(* coordinates and an integer length.                                    *)
IntegerRoot(n) == CHOOSE r \in 0..n : r * r <= n /\ n < (r + 1) * (r + 1)
_calculate_distance(p1, p2) ==
    LET dx == PSub(Lift(p2.x), Lift(p1.x))
        dy == PSub(Lift(p2.y), Lift(p1.y))
        dz == PSub(Lift(p2.z), Lift(p1.z))
        sum == PAdd(PAdd(PMul(dx, dx), PMul(dy, dy)), PMul(dz, dz))
    IN  IF dy = PInt(0) /\ dz = PInt(0) THEN PAbs(dx)
        ELSE IF dx = PInt(0) /\ dz = PInt(0) THEN PAbs(dy)
        ELSE IF dx = PInt(0) /\ dy = PInt(0) THEN PAbs(dz)
        ELSE PInt(IntegerRoot(sum[1]))

(* Lines 143-147: total_distance over the first n legs. *)
RECURSIVE path_length(_, _)
path_length(raw_waypoints, n) ==
    IF n <= 0
    THEN PInt(0)
    ELSE PAdd(path_length(raw_waypoints, n - 1),
              _calculate_distance(raw_waypoints[n], raw_waypoints[n + 1]))

(* Lines 156-179: current_time_minutes after k iterations of the loop of *)
(* line 163.  speed = total_distance / total_duration_minutes is not     *)
(* formed: speed > 1e-9 iff total_distance > 1e-9 * total_duration, and  *)
(* segment_distance / speed = segment_distance * duration / total.       *)
RECURSIVE current_time_minutes_after(_, _, _, _)
current_time_minutes_after(raw_waypoints, start_time_minutes, end_time_minutes, k) ==
    IF k = 0
    THEN RInt(start_time_minutes)
    ELSE LET current == current_time_minutes_after(
                            raw_waypoints, start_time_minutes, end_time_minutes, k - 1)
             i == k - 1
             total_distance == path_length(raw_waypoints, Len(raw_waypoints) - 1)
             total_duration_minutes == end_time_minutes - start_time_minutes
             segment_distance ==
                 _calculate_distance(raw_waypoints[i + 1], raw_waypoints[i + 2])
             speed_above_1e_9 ==
                 PLess(PMul(<<0, 10, 0, 0, 0>>, PInt(total_duration_minutes)),
                       total_distance)
             remaining_segments == Len(raw_waypoints) - 1 - i
             remaining_time == RSub(RInt(end_time_minutes), current)
             time_for_segment_minutes ==
                 IF speed_above_1e_9
                 THEN [num |-> PMul(segment_distance, PInt(total_duration_minutes)),
                       den |-> total_distance]
                 ELSE IF remaining_segments > 0 /\ PSign(remaining_time.num) > 0
                 THEN RDivInt(remaining_time, remaining_segments)
                 ELSE RInt(0)
         IN  RAdd(current, time_for_segment_minutes)

(* Lines 187-189: the last timestamp is set to end_time_minutes when it  *)
(* is one minute away from it.                                           *)
snap_last(stamps, end_time_minutes) ==
    IF /\ Len(stamps) > 0
       /\ stamps[Len(stamps)] - end_time_minutes <= 1
       /\ end_time_minutes - stamps[Len(stamps)] <= 1
       /\ stamps[Len(stamps)] # end_time_minutes
    THEN [stamps EXCEPT ![Len(stamps)] = end_time_minutes]
    ELSE stamps

(* Lines 137-189: the timestamp_minutes of each calculated waypoint. *)
primary_timestamps(raw_waypoints, start_time_minutes, end_time_minutes) ==
    IF Len(raw_waypoints) = 1
    THEN <<start_time_minutes>>
    ELSE IF path_length(raw_waypoints, Len(raw_waypoints) - 1) = PInt(0)
    THEN [i \in 1..Len(raw_waypoints) |-> start_time_minutes]
    ELSE snap_last(
             [n \in 1..Len(raw_waypoints) |->
                 IF n = 1
                 THEN start_time_minutes
                 ELSE Min(round(current_time_minutes_after(
                                    raw_waypoints, start_time_minutes,
                                    end_time_minutes, n - 1)),
                          end_time_minutes)],
             end_time_minutes)

(* Lines 132-189: calculated_waypoints.  Each element is built by the    *)
(* Waypoint call of line 140, 153, 160 or 184; a TypeError raised there  *)
(* is not caught in load_missions_from_json.                             *)
calculated_waypoints(raw_waypoints, start_time_minutes, end_time_minutes) ==
    LET stamps == primary_timestamps(raw_waypoints, start_time_minutes,
                                     end_time_minutes)
        built == [i \in 1..Len(raw_waypoints) |->
                     Waypoint([x |-> raw_waypoints[i].x, y |-> raw_waypoints[i].y,
                               z |-> raw_waypoints[i].z,
                               timestamp_minutes |-> stamps[i]])]
    IN  IF Raised(built) # {} THEN FirstRaised(built) ELSE Returns(Values(built))

(* A variant without the test for an empty waypoint list. *)
primary_fields_allowing_empty(primary_data) ==
    IF ~({"drone_id", "waypoints", "start_time", "end_time"} \subseteq DOMAIN primary_data)
    THEN KeyError("Primary mission data missing 'drone_id', 'waypoints', 'start_time' or 'end_time'")
    ELSE Returns(primary_data)

(* Lines 98-102. *)
primary_fields(primary_data) ==
    IF ~({"drone_id", "waypoints", "start_time", "end_time"} \subseteq DOMAIN primary_data)
    THEN KeyError("Primary mission data missing 'drone_id', 'waypoints', 'start_time' or 'end_time'")
    ELSE IF Len(primary_data.waypoints) = 0
    THEN ValueError("Primary mission must have at least one waypoint")
    ELSE Returns(primary_data)

(* A variant that accepts a window whose start equals its end. *)
primary_window_allowing_equal(start_time_minutes, end_time_minutes) ==
    IF start_time_minutes > end_time_minutes
    THEN ValueError("Primary mission start_time must be before end_time")
    ELSE Returns(end_time_minutes - start_time_minutes)

(* Lines 128-133: the window test and total_duration_minutes. *)
primary_window(start_time_minutes, end_time_minutes) ==
    IF start_time_minutes >= end_time_minutes
    THEN ValueError("Primary mission start_time must be before end_time")
    ELSE Returns(end_time_minutes - start_time_minutes)

(* Lines 95-192: the primary mission. *)
primary_mission_from(data) ==
    IF "primary_mission" \notin DOMAIN data
    THEN KeyError("Missing 'primary_mission' key in JSON data")
    ELSE
    LET primary_data == primary_fields(data.primary_mission)
    IN  IF primary_data.raised THEN primary_data ELSE
    LET raw_waypoints == [i \in 1..Len(primary_data.value.waypoints) |->
                             raw_waypoint(primary_data.value.waypoints[i])]
    IN  IF Raised(raw_waypoints) # {} THEN FirstRaised(raw_waypoints) ELSE
    LET start_time_minutes == _parse_hhmm_to_minutes(primary_data.value.start_time)
        end_time_minutes == _parse_hhmm_to_minutes(primary_data.value.end_time)
    IN  IF start_time_minutes.raised \/ end_time_minutes.raised
        THEN ValueError("Invalid start/end time for primary drone")
        ELSE
    LET total_duration_minutes ==
            primary_window(start_time_minutes.value, end_time_minutes.value)
    IN  IF total_duration_minutes.raised THEN total_duration_minutes
        ELSE IF total_duration_minutes.value <= 0
        THEN ValueError("Primary mission duration must be positive")
        ELSE
    LET calculated == calculated_waypoints(Values(raw_waypoints),
                                           start_time_minutes.value,
                                           end_time_minutes.value)
    IN  IF calculated.raised
        THEN calculated
        ELSE Returns(Mission(primary_data.value.drone_id, calculated.value))

(* Lines 33-194.  The simulated missions are parsed before the primary   *)
(* mission is looked at.                                                 *)
load_missions_from_json(file) ==
    LET data == read_json(file)
    IN  IF data.raised THEN data
        ELSE IF "simulated_missions" \notin DOMAIN data.value
        THEN KeyError("Missing 'simulated_missions' key in JSON data")
        ELSE
    LET simulated_loaded ==
            [k \in 1..Len(data.value.simulated_missions) |->
                simulated_mission(data.value.simulated_missions[k])]
    IN  IF Raised(simulated_loaded) # {} THEN FirstRaised(simulated_loaded)
        ELSE
    LET primary_mission_loaded == primary_mission_from(data.value)
    IN  IF primary_mission_loaded.raised
        THEN primary_mission_loaded
        ELSE [raised |-> FALSE,
              primary_mission |-> primary_mission_loaded.value,
              simulated_missions |-> Values(simulated_loaded)]


(* ------------------------------------------------------------------ *)
(* Mission files                                                        *)
(* ------------------------------------------------------------------ *)
RawPoint(x, y, z) == [x |-> C(x), y |-> C(y), z |-> C(z)]
SimPoint(x, y, z, t) == [x |-> C(x), y |-> C(y), z |-> C(z), timestamp |-> t]

(* Primary waypoint lists: every list over three points of one line, and *)
(* lists with a missing z, a stray timestamp, a 3-4-5 leg, a total       *)
(* length of 1e-10, legs of 1, 1 and 1 (ties of round()), and legs of    *)
(* 1e-10 and 2e-10 (a speed below 1e-9 over unequal legs).               *)
RawPoints == {RawPoint(0, 0, 10), RawPoint(100, 0, 10), RawPoint(30, 0, 10)}
PrimaryWaypointLists ==
    SeqsUpTo(RawPoints, MaxRawWaypoints) \cup
    {<<[x |-> C(0), y |-> C(0)]>>,
     <<RawPoint(0, 0, 10), SimPoint(100, 0, 10, 805)>>,
     <<RawPoint(0, 0, 10), RawPoint(3, 4, 10)>>,
     <<RawPoint(0, 0, 10), [x |-> Cd(0, 1), y |-> C(0), z |-> C(10)]>>,
     <<RawPoint(0, 0, 10), RawPoint(1, 0, 10), RawPoint(2, 0, 10), RawPoint(3, 0, 10)>>,
     <<RawPoint(0, 0, 10), [x |-> Cd(0, 1), y |-> C(0), z |-> C(10)],
       [x |-> Cd(0, 3), y |-> C(0), z |-> C(10)]>>}

(* <<start_time, end_time>> in HHMM. *)
PrimaryWindows ==
    {<<800, 810>>, <<810, 800>>, <<800, 800>>, <<1460, 810>>, <<800, 2400>>,
     <<0, 2359>>, <<800, 801>>}

SimulatedLists ==
    {<<>>,
     <<[drone_id |-> "sim_01", waypoints |-> <<>>]>>,
     <<[drone_id |-> "sim_01",
        waypoints |-> <<SimPoint(50, -10, 0, 803), SimPoint(50, 10, 0, 806)>>]>>,
     <<[drone_id |-> "sim_01",
        waypoints |-> <<SimPoint(50, 10, 0, 806), SimPoint(50, -10, 0, 803),
                        SimPoint(50, 0, 0, 806)>>]>>,
     <<[drone_id |-> "sim_01", waypoints |-> <<>>],
       [drone_id |-> "sim_02",
        waypoints |-> <<[x |-> C(50), y |-> C(10), timestamp |-> 806]>>]>>,
     <<[drone_id |-> "sim_01", waypoints |-> <<SimPoint(50, 10, 0, 860)>>]>>,
     <<[drone_id |-> "sim_01"]>>,
     <<[drone_id |-> "sim_01",
        waypoints |-> <<[x |-> C1e200, y |-> C(0), z |-> C(10), timestamp |-> 803],
                        [x |-> C1e200, y |-> C(5), z |-> C(10), timestamp |-> 806]>>]>>}

MissionFile(content) == [exists |-> TRUE, json_valid |-> TRUE, content |-> content]
PrimaryData(w, t) ==
    [drone_id |-> "primary_01", waypoints |-> w, start_time |-> t[1], end_time |-> t[2]]
MissionFiles ==
    {MissionFile([simulated_missions |-> s, primary_mission |-> PrimaryData(w, t)]) :
        s \in SimulatedLists, w \in PrimaryWaypointLists, t \in PrimaryWindows}
    \cup
    {[exists |-> FALSE, json_valid |-> FALSE, content |-> None],
     [exists |-> TRUE, json_valid |-> FALSE, content |-> None],
     MissionFile([simulated_missions |-> <<>>]),
     MissionFile([primary_mission |-> PrimaryData(<<RawPoint(0, 0, 10)>>, <<800, 810>>)]),
     MissionFile([simulated_missions |-> <<>>,
                  primary_mission |-> [drone_id |-> "primary_01",
                                       waypoints |-> <<RawPoint(0, 0, 10)>>,
                                       start_time |-> 800]])}

(* ------------------------------------------------------------------ *)
(* State                                                                *)
(* ------------------------------------------------------------------ *)
VARIABLES
    universe,            \* which input set the behaviour draws from
    calls_left,          \* invocations still allowed in this behaviour
    pc,                  \* "idle", "loop" (inside find_conflicts), "returned",
                         \*   "raised" (find_conflicts ended by an exception)
    primary_mission,     \* the arguments of find_conflicts, as objects the
    simulated_missions,  \*   caller still holds after the call
    safety_buffer,
    primary_segments,    \* find_conflicts locals
    sim_i,               \* position of the for-loop over simulated_missions
    conflict_found,
    conflict_details,
    passed,              \* history: the arguments as they were passed
    first,               \* history: arguments and result of the first call
    status,              \* check_mission_conflicts: returned status
    report,              \*   and returned detail list
    probe,               \* a direct evaluation of the predicates on a pair
    hhmm,                \* _parse_hhmm_to_minutes: argument
    minutes,             \*   and outcome
    mission_file,        \* load_missions_from_json: the file at filepath
    loaded,              \*   and outcome
    run                  \* check_mission_conflicts: arguments and outcome

vars == <<universe, calls_left, pc, primary_mission, simulated_missions,
          safety_buffer, primary_segments, sim_i, conflict_found,
          conflict_details, passed, first, status, report, probe, hhmm, minutes,
          mission_file, loaded, run>>

classifier_vars == <<universe, calls_left, pc, primary_mission, simulated_missions,
                     safety_buffer, primary_segments, sim_i, conflict_found,
                     conflict_details, passed, first, status, report>>
clock_vars == <<hhmm, minutes>>
loader_vars == <<mission_file, loaded>>

NoInput == Input(Mission("", <<>>), <<>>, C(0))

ClassifierIdle ==
    /\ pc = "idle"
    /\ primary_mission = NoInput.primary
    /\ simulated_missions = NoInput.sims
    /\ safety_buffer = NoInput.buffer
    /\ primary_segments = <<>>
    /\ sim_i = 1
    /\ conflict_found = FALSE
    /\ conflict_details = <<>>
    /\ passed = NoInput
    /\ first = None
    /\ status = "none"
    /\ report = <<>>

Init ==
    /\ universe \in {"fleet", "pairs", "margins", "replay"}
    /\ calls_left = (IF universe = "replay" THEN MaxCalls ELSE 1)
    /\ ClassifierIdle
    /\ probe = None
    /\ hhmm = 0
    /\ minutes = None
    /\ mission_file = None
    /\ loaded = None
    /\ run = None

(* ------------------------------------------------------------------ *)
(* find_conflicts                                                       *)
(* ------------------------------------------------------------------ *)
(* Lines 183-187: fresh locals, the primary's segments and waypoints. *)
Begin(found0, details0) ==
    /\ pc = "idle"
    /\ calls_left > 0
    /\ \E inp \in InputsOf(universe) :
        /\ passed' = inp
        /\ primary_mission' =
              [inp.primary EXCEPT !.waypoints = waypoints_after_segmenting(@)]
        /\ simulated_missions' = inp.sims
        /\ safety_buffer' = inp.buffer
        /\ primary_segments' = get_path_segments(inp.primary.waypoints)
    /\ conflict_found' = found0
    /\ conflict_details' = details0
    /\ sim_i' = 1
    /\ pc' = "loop"
    /\ calls_left' = calls_left - 1
    /\ UNCHANGED <<universe, first, status, report, probe, hhmm, minutes, mission_file, loaded, run>>

(* A variant that keeps the result variables of the previous call. *)
find_conflicts_begin_retaining == Begin(conflict_found, conflict_details)

find_conflicts_begin == Begin(FALSE, <<>>)

(* A variant in which only the segment loop sets conflict_found. *)
found_after_segments_only(found, segs, wps) == found \/ Len(segs) > 0

(* Lines 200 and 214: conflict_found after the appends of one iteration. *)
found_after(found, segs, wps) == found \/ Len(segs) > 0 \/ Len(wps) > 0

(* Lines 189-217: the body of the loop for one simulated mission.  An   *)
(* exception raised in a check is not caught in find_conflicts: it ends *)
(* the call, pc = "raised".                                             *)
find_conflicts_sim ==
    /\ pc = "loop"
    /\ sim_i <= Len(simulated_missions)
    /\ LET sim_mission == simulated_missions[sim_i]
           segs == segment_loop(sim_i - 1, primary_segments, sim_mission, safety_buffer)
           wps == waypoint_loop(sim_i - 1, primary_mission.waypoints, sim_mission)
       IN  IF segment_loop_exception(primary_segments, sim_mission, safety_buffer) # None
           THEN /\ pc' = "raised"
                /\ UNCHANGED <<conflict_details, conflict_found, simulated_missions,
                               sim_i>>
           ELSE /\ conflict_details' = conflict_details \o segs \o wps
                /\ conflict_found' = found_after(conflict_found, segs, wps)
                /\ simulated_missions' =
                      [simulated_missions EXCEPT
                          ![sim_i].waypoints = waypoints_after_segmenting(@)]
                /\ sim_i' = sim_i + 1
                /\ pc' = pc
    /\ UNCHANGED <<universe, calls_left, primary_mission, safety_buffer,
                   primary_segments, passed, first, status, report, probe,
                   hhmm, minutes, mission_file, loaded, run>>

(* Line 219. *)
find_conflicts_return ==
    /\ pc = "loop"
    /\ sim_i > Len(simulated_missions)
    /\ pc' = "returned"
    /\ first' =
          IF first = None
          THEN [inputs |-> passed, found |-> conflict_found,
                details |-> conflict_details, others |-> 0]
          ELSE IF passed # first.inputs /\ first.others = 0
          THEN [first EXCEPT !.others = 1]
          ELSE first
    /\ UNCHANGED <<universe, calls_left, primary_mission, simulated_missions,
                   safety_buffer, primary_segments, sim_i, conflict_found,
                   conflict_details, passed, status, report, probe, hhmm, minutes, mission_file, loaded, run>>

(* deconfliction_system.py lines 41-68, on the outcome of find_conflicts: *)
(* lines 53-68 when it returned, lines 47-51 when it raised.             *)
check_mission_conflicts_status ==
    /\ pc \in {"returned", "raised"}
    /\ LET r == IF pc = "returned"
                THEN mission_status(conflict_found, conflict_details)
                ELSE error_during_check(
                         segment_loop_exception(
                             primary_segments, simulated_missions[sim_i], safety_buffer))
       IN  /\ status' = r.status
           /\ report' = r.details
    /\ pc' = "idle"
    /\ UNCHANGED <<universe, calls_left, primary_mission, simulated_missions,
                   safety_buffer, primary_segments, sim_i, conflict_found,
                   conflict_details, passed, first, probe, hhmm, minutes, mission_file, loaded, run>>

Next ==
    \/ find_conflicts_begin
    \/ find_conflicts_sim
    \/ find_conflicts_return
    \/ check_mission_conflicts_status

Spec == Init /\ [][Next]_vars

(* ------------------------------------------------------------------ *)
(* The clock converter applied to one input                             *)
(* ------------------------------------------------------------------ *)
InitClock ==
    /\ universe = "clock"
    /\ calls_left = 0
    /\ ClassifierIdle
    /\ probe = None
    /\ hhmm \in (0 - MinusHHMM)..MaxHHMM
    /\ minutes = None
    /\ mission_file = None
    /\ loaded = None
    /\ run = None

parse_hhmm ==
    /\ minutes = None
    /\ minutes' = _parse_hhmm_to_minutes(hhmm)
    /\ UNCHANGED <<classifier_vars, probe, hhmm, loader_vars, run>>

NextClock == parse_hhmm

SpecClock == InitClock /\ [][NextClock]_vars

(* ------------------------------------------------------------------ *)
(* The predicates applied to one pair of segments                       *)
(* ------------------------------------------------------------------ *)
XAxis == <<P3(0, 0, 0, 480), P3(100, 0, 0, 490)>>
(* The segment from (50, y, 0) up to (50, 20, 0): its smallest           *)
(* endpoint-to-segment distance to XAxis is y, for 0 <= y <= 20.         *)
Vertical(y) == <<Wp(C(50), y, C(0), 485), P3(50, 20, 0, 486)>>

(* A segment of length 3e-10 from (10, 10, 5): its squared length is     *)
(* below 1e-9 without being zero.                                        *)
NearlyPoint == <<P3(10, 10, 5, 500), Wp(Cd(10, 3), C(10), C(5), 500)>>

PredSegments1 ==
    {XAxis,
     <<P3(100, 0, 0, 490), P3(0, 0, 0, 480)>>,
     <<P3(10, 10, 5, 500), P3(10, 10, 5, 500)>>,
     NearlyPoint}
PredPoints ==
    {Wp(C(50), C(3), C(0), 485), Wp(C(50), C(5), C(0), 485),
     Wp(C(50), Cd(5, 1), C(0), 485), Wp(C(50), Cd(5, -2), C(0), 485),
     Wp(C(50), Cd(5, -10), C(0), 485), Wp(C(50), Cd(5, -11), C(0), 485),
     P3(50, 20, 0, 486), P3(50, 20, 0, 495), P3(50, 3, 0, 490),
     P3(50, -10, 0, 483), P3(50, 10, 0, 486),
     P3(120, 0, 0, 489), P3(10, 10, 5, 500), P3(10, 10, 9, 500),
     P3(50, 0, 0, 485), P3(-20, 0, 0, 479), NearlyPoint[2]}
PredBuffers == {C(5), C(0), Cd(5, 2)}

Probe(a, b, buf) ==
    [segment1 |-> a, segment2 |-> b, safety_buffer |-> buf, evaluated |-> FALSE,
     spatial |-> FALSE, spatio_temporal |-> FALSE, collision |-> FALSE,
     spatial_swapped |-> FALSE, spatio_temporal_swapped |-> FALSE,
     collision_swapped |-> FALSE, distance |-> None]

InitPred ==
    /\ universe = "predicates"
    /\ calls_left = 0
    /\ ClassifierIdle
    /\ probe \in {Probe(a, <<b1, b2>>, buf) :
                    a \in PredSegments1, b1 \in PredPoints, b2 \in PredPoints,
                    buf \in PredBuffers}
    /\ hhmm = 0
    /\ minutes = None
    /\ mission_file = None
    /\ loaded = None
    /\ run = None

evaluate_predicates ==
    /\ probe # None
    /\ ~probe.evaluated
    /\ probe' =
          [probe EXCEPT
              !.evaluated = TRUE,
              !.spatial = check_segment_spatial_conflict(
                              probe.segment1, probe.segment2, probe.safety_buffer),
              !.spatio_temporal = check_spatio_temporal_segment_conflict(
                              probe.segment1, probe.segment2, probe.safety_buffer),
              !.collision = check_waypoint_collision(
                              probe.segment1[1], probe.segment2[1]),
              !.spatial_swapped = check_segment_spatial_conflict(
                              probe.segment2, probe.segment1, probe.safety_buffer),
              !.spatio_temporal_swapped = check_spatio_temporal_segment_conflict(
                              probe.segment2, probe.segment1, probe.safety_buffer),
              !.collision_swapped = check_waypoint_collision(
                              probe.segment2[1], probe.segment1[1]),
              !.distance = distance_point_to_segment_3d(
                              probe.segment2[1], probe.segment1[1], probe.segment1[2])]
    /\ UNCHANGED <<classifier_vars, clock_vars, loader_vars, run>>

NextPred == evaluate_predicates

SpecPred == InitPred /\ [][NextPred]_vars

(* ------------------------------------------------------------------ *)
(* load_missions_from_json applied to one mission file                  *)
(* ------------------------------------------------------------------ *)
InitLoad ==
    /\ universe = "loader"
    /\ calls_left = 0
    /\ ClassifierIdle
    /\ probe = None
    /\ hhmm = 0
    /\ minutes = None
    /\ mission_file \in MissionFiles
    /\ loaded = None
    /\ run = None

load_missions ==
    /\ mission_file # None
    /\ loaded = None
    /\ loaded' = load_missions_from_json(mission_file)
    /\ UNCHANGED <<classifier_vars, probe, clock_vars, mission_file, run>>

NextLoad == load_missions

SpecLoad == InitLoad /\ [][NextLoad]_vars

(* ------------------------------------------------------------------ *)
(* check_mission_conflicts applied to one mission file                  *)
(* ------------------------------------------------------------------ *)
(* src/conflict_checks.py lines 183-219 from the simulated mission at   *)
(* position k on, as one call: the records of every iteration in order, *)
(* or the exception of the first check that raises.                     *)
RECURSIVE find_conflicts_from(_, _, _, _, _, _)
find_conflicts_iteration(k, primary, sims, buffer, found, details, e, segs, wps) ==
    IF e # None
    THEN e
    ELSE find_conflicts_from(k + 1, primary, sims, buffer,
                             found_after(found, segs, wps), details \o segs \o wps)

find_conflicts_from(k, primary, sims, buffer, found, details) ==
    IF k > Len(sims)
    THEN Returns([conflict_found |-> found, conflict_details |-> details])
    ELSE find_conflicts_iteration(
             k, primary, sims, buffer, found, details,
             segment_loop_exception(get_path_segments(primary.waypoints), sims[k], buffer),
             segment_loop(k - 1, get_path_segments(primary.waypoints), sims[k], buffer),
             waypoint_loop(k - 1, primary.waypoints, sims[k]))

find_conflicts(primary, sims, buffer) ==
    find_conflicts_from(1, primary, sims, buffer, FALSE, <<>>)

(* deconfliction_system.py line 38: the exceptions of the load that are *)
(* caught.                                                              *)
LoadErrors == {"FileNotFoundError", "ValueError", "KeyError"}

(* deconfliction_system.py line 39. *)
error_loading_mission(e) ==
    [status |-> "Error Loading Mission",
     details |-> <<[kind |-> "Error", exception |-> e.exception, message |-> e.message]>>]

(* What check_mission_conflicts hands back: the four values of its      *)
(* return statement, the functions it has called, in order, and whether *)
(* it printed the warning of line 65.                                   *)
Returned4(status_details, primary, sims, called, plot_warning) ==
    [raised |-> FALSE, status |-> status_details.status,
     details |-> status_details.details,
     primary_mission |-> primary, simulated_missions |-> sims,
     called |-> called, plot_warning |-> plot_warning]

(* deconfliction_system.py lines 60-66: plot_missions is called when    *)
(* show_plot is set and simulated_missions is not empty (a DroneMission *)
(* is always true).                                                     *)
plot_requested(show_plot, primary, sims) == show_plot /\ Len(sims) > 0

(* deconfliction_system.py lines 53-68, after find_conflicts returned:  *)
(* an exception of plot_missions is caught at line 64, where a warning  *)
(* is printed, and the call goes on to the return of line 68.           *)
after_check(status_details, primary, sims, show_plot, plot_raises) ==
    IF plot_requested(show_plot, primary, sims)
    THEN Returned4(status_details, primary, sims,
                   <<"load_missions_from_json", "find_conflicts", "plot_missions">>,
                   plot_raises)
    ELSE Returned4(status_details, primary, sims,
                   <<"load_missions_from_json", "find_conflicts">>, FALSE)

(* deconfliction_system.py lines 41-51 on the outcome of find_conflicts: *)
(* an exception is caught at line 47.                                   *)
after_find_conflicts(result, primary, sims, show_plot, plot_raises) ==
    IF result.raised
    THEN Returned4(error_during_check(result), primary, sims,
                   <<"load_missions_from_json", "find_conflicts">>, FALSE)
    ELSE after_check(mission_status(result.value.conflict_found,
                                    result.value.conflict_details),
                     primary, sims, show_plot, plot_raises)

(* deconfliction_system.py lines 35-51 on the outcome of the load: an   *)
(* exception other than those of line 38 is not caught and ends the     *)
(* call.                                                                *)
after_load(missions, buffer, show_plot, plot_raises) ==
    IF missions.raised
    THEN IF missions.exception \in LoadErrors
         THEN Returned4(error_loading_mission(missions), None, None,
                        <<"load_missions_from_json">>, FALSE)
         ELSE [raised |-> TRUE, exception |-> missions.exception,
               message |-> missions.message,
               called |-> <<"load_missions_from_json">>]
    ELSE after_find_conflicts(
             find_conflicts(missions.primary_mission, missions.simulated_missions,
                            buffer),
             missions.primary_mission, missions.simulated_missions,
             show_plot, plot_raises)

(* deconfliction_system.py lines 33-68. *)
check_mission_conflicts(file, buffer, show_plot, plot_raises) ==
    after_load(load_missions_from_json(file), buffer, show_plot, plot_raises)

SystemBuffers == {C(5), C(0), C(15)}

InitSystem ==
    /\ universe = "system"
    /\ calls_left = 0
    /\ ClassifierIdle
    /\ probe = None
    /\ hhmm = 0
    /\ minutes = None
    /\ mission_file \in MissionFiles
    /\ loaded = None
    /\ run = None

check_mission_conflicts_call ==
    /\ mission_file # None
    /\ run = None
    /\ \E buffer \in SystemBuffers, show_plot \in BOOLEAN, plot_raises \in BOOLEAN :
          run' = [safety_buffer |-> buffer, show_plot |-> show_plot,
                  plot_raises |-> plot_raises,
                  outcome |-> check_mission_conflicts(mission_file, buffer,
                                                      show_plot, plot_raises)]
    /\ UNCHANGED <<classifier_vars, probe, clock_vars, loader_vars>>

NextSystem == check_mission_conflicts_call

SpecSystem == InitSystem /\ [][NextSystem]_vars

(* ------------------------------------------------------------------ *)
(* Properties                                                           *)
(* ------------------------------------------------------------------ *)
IsSegmentRecord(r) == r.kind = "SegmentConflict"
IsWaypointRecord(r) == r.kind = "WaypointCollision"
SegmentRecords == SelectSeq(conflict_details, IsSegmentRecord)
WaypointRecords == SelectSeq(conflict_details, IsWaypointRecord)
Returned == pc = "returned"

(* The closed minute window of a segment, whichever endpoint is earlier,  *)
(* and overlap as a common minute.                                         *)
InWindow(t, segment) ==
    LET a == segment[1].timestamp_minutes
        b == segment[2].timestamp_minutes
    IN  (a <= t /\ t <= b) \/ (b <= t /\ t <= a)
WindowsOverlap(s1, s2) ==
    \E t \in {s1[1].timestamp_minutes, s1[2].timestamp_minutes,
              s2[1].timestamp_minutes, s2[2].timestamp_minutes} :
        InWindow(t, s1) /\ InWindow(t, s2)

(* |a - b| < 1e-9 for two coordinates a = a1 + a2*d, b = b1 + b2*d. *)
Within1e9(a, b) == a[1] = b[1] /\ a[2] - b[2] < 10 /\ b[2] - a[2] < 10

SimPositions == 1..Len(passed.sims)
PrimarySegmentsOfCall == get_path_segments(passed.primary.waypoints)
SimSegmentsOfCall(k) == get_path_segments(passed.sims[k].waypoints)

HasSegmentRecord(k, i, j) ==
    \E n \in 1..Len(conflict_details) :
        /\ conflict_details[n].kind = "SegmentConflict"
        /\ conflict_details[n].sim = k - 1
        /\ conflict_details[n].primary_index = i - 1
        /\ conflict_details[n].other_index = j - 1
HasWaypointRecord(k, i, j) ==
    \E n \in 1..Len(conflict_details) :
        /\ conflict_details[n].kind = "WaypointCollision"
        /\ conflict_details[n].sim = k - 1
        /\ conflict_details[n].primary_index = i - 1
        /\ conflict_details[n].other_index = j - 1

ScenarioB ==
    Input(Mission("primary_01", XAxis),
          Fleet(<<<<P3(50, -10, 0, 483), P3(50, 10, 0, 486)>>>>), C(5))
ScenarioC ==
    Input(Mission("primary_01", XAxis),
          Fleet(<<<<P3(50, -10, 0, 491), P3(50, 10, 0, 494)>>>>), C(5))
ScenarioD ==
    Input(Mission("primary_01", <<P3(10, 10, 5, 500)>>),
          Fleet(<<<<P3(10, 10, 5, 500)>>>>), C(5))

(* C1: Scenario B (primary (0,0,0)@480 -> (100,0,0)@490, simulated         *)
(* (50,-10,0)@483 -> (50,10,0)@486, buffer 5) makes find_conflicts return  *)
(* conflict found with exactly one segment-conflict record.                *)
C1_ScenarioB_OneSegmentConflict ==
    (Returned /\ passed = ScenarioB) =>
        (conflict_found /\ Len(SegmentRecords) = 1)

(* C2: a segment-conflict record exists for a (primary segment, simulated  *)
(* segment) pair exactly when the spatial evaluator reports a breach and   *)
(* the two time windows share a minute; Scenario C yields no record.       *)
C2_SegmentConflictIffSpatialAndOverlap ==
    Returned =>
        /\ \A k \in SimPositions :
             \A i \in 1..Len(PrimarySegmentsOfCall) :
               \A j \in 1..Len(SimSegmentsOfCall(k)) :
                  HasSegmentRecord(k, i, j) <=>
                     ( /\ check_segment_spatial_conflict(
                              PrimarySegmentsOfCall[i], SimSegmentsOfCall(k)[j],
                              passed.buffer)
                       /\ WindowsOverlap(PrimarySegmentsOfCall[i],
                                         SimSegmentsOfCall(k)[j]) )
        /\ (passed = ScenarioC => conflict_details = <<>>)

(* C2 witness: a pair in spatial breach whose windows are disjoint, and    *)
(* find_conflicts has returned without any segment record.                 *)
C2_Witness ==
    /\ Returned
    /\ Len(PrimarySegmentsOfCall) = 1
    /\ Len(passed.sims) = 1
    /\ Len(SimSegmentsOfCall(1)) = 1
    /\ check_segment_spatial_conflict(PrimarySegmentsOfCall[1],
                                      SimSegmentsOfCall(1)[1], passed.buffer)
    /\ ~WindowsOverlap(PrimarySegmentsOfCall[1], SimSegmentsOfCall(1)[1])
    /\ SegmentRecords = <<>>

(* The four endpoint-to-segment distances of a pair, tested against        *)
(* buffer - 1e-9.                                                          *)
SomeEndpointCloser(a, b, buf) ==
    LET limit == PSub(Lift(buf), FLOAT_TOLERANCE)
    IN  \/ DistanceLess(distance_point_to_segment_3d(a[1], b[1], b[2]), limit)
        \/ DistanceLess(distance_point_to_segment_3d(a[2], b[1], b[2]), limit)
        \/ DistanceLess(distance_point_to_segment_3d(b[1], a[1], a[2]), limit)
        \/ DistanceLess(distance_point_to_segment_3d(b[2], a[1], a[2]), limit)

ProbeIs(a, b, buf) ==
    /\ probe # None
    /\ probe.evaluated
    /\ probe.segment1 = a
    /\ probe.segment2 = b
    /\ probe.safety_buffer = buf

SpatialIffSomeEndpointCloser ==
    (probe # None /\ probe.evaluated) =>
        (probe.spatial <=>
            SomeEndpointCloser(probe.segment1, probe.segment2, probe.safety_buffer))

SegmentTriples ==
    {t \in SimPositions \X (1..MaxWaypoints + 1) \X (1..MaxWaypoints + 1) :
        /\ t[2] <= Len(PrimarySegmentsOfCall)
        /\ t[3] <= Len(SimSegmentsOfCall(t[1]))
        /\ check_spatio_temporal_segment_conflict(
               PrimarySegmentsOfCall[t[2]], SimSegmentsOfCall(t[1])[t[3]],
               passed.buffer)}
WaypointTriples ==
    {t \in SimPositions \X (1..MaxWaypoints + 1) \X (1..MaxWaypoints + 1) :
        /\ t[2] <= Len(passed.primary.waypoints)
        /\ t[3] <= Len(passed.sims[t[1]].waypoints)
        /\ check_waypoint_collision(passed.primary.waypoints[t[2]],
                                    passed.sims[t[1]].waypoints[t[3]])}

(* C5: the number of records find_conflicts returns is the number of       *)
(* (simulated mission, primary segment, simulated segment) triples with a  *)
(* true segment predicate plus the number of (simulated mission, primary   *)
(* waypoint, simulated waypoint) triples with a true collision predicate.  *)
C5_EveryConflictReported ==
    Returned =>
        Len(conflict_details) = Cardinality(SegmentTriples) + Cardinality(WaypointTriples)

(* C5 witness: a call with two simulated missions that returned several    *)
(* segment records and several collision records for the same mission.     *)
C5_Witness ==
    /\ Returned
    /\ Len(passed.sims) = 2
    /\ \E n \in 1..(Len(SegmentRecords) - 1) :
          SegmentRecords[n].sim = SegmentRecords[n + 1].sim
    /\ \E n \in 1..(Len(WaypointRecords) - 1) :
          WaypointRecords[n].sim = WaypointRecords[n + 1].sim

KeyOf(r) == <<r.sim, r.primary_index, r.other_index>>
KeyLess(a, b) ==
    \/ a[1] < b[1]
    \/ a[1] = b[1] /\ a[2] < b[2]
    \/ a[1] = b[1] /\ a[2] = b[2] /\ a[3] < b[3]
Increasing(recs) ==
    \A m \in 1..Len(recs) : \A n \in 1..Len(recs) :
        m < n => KeyLess(KeyOf(recs[m]), KeyOf(recs[n]))

(* C6: the segment-conflict records on their own, and the waypoint-        *)
(* collision records on their own, are in increasing lexicographic order   *)
(* of (position of the simulated mission, primary index, other index).     *)
C6_RecordsInLoopOrder ==
    Increasing(SegmentRecords) /\ Increasing(WaypointRecords)

(* C6 witness: records of either kind for two simulated missions, with     *)
(* segment records that differ in the primary index and in the other index *)
(* within one mission.                                                     *)
C6_Witness ==
    /\ Returned
    /\ \E m, n \in 1..Len(SegmentRecords) :
          /\ SegmentRecords[m].sim = SegmentRecords[n].sim
          /\ SegmentRecords[m].primary_index < SegmentRecords[n].primary_index
          /\ SegmentRecords[m].other_index > SegmentRecords[n].other_index
    /\ \E m, n \in 1..Len(SegmentRecords) :
          SegmentRecords[m].sim # SegmentRecords[n].sim
    /\ \E m, n \in 1..Len(WaypointRecords) :
          WaypointRecords[m].sim # WaypointRecords[n].sim

(* C7: find_conflicts returns conflict_found = True exactly when its       *)
(* record list is non-empty, and check_mission_conflicts then returns      *)
(* "Conflict Detected" with that non-empty list, or "Clear" with an empty  *)
(* list.                                                                   *)
C7_VerdictAgreesWithReport ==
    /\ Returned => (conflict_found <=> conflict_details # <<>>)
    /\ status \notin {"none", "Error During Check"} =>
          /\ status \in {"Conflict Detected", "Clear"}
          /\ status = "Conflict Detected" <=> report # <<>>
    /\ (pc = "idle" /\ status \notin {"none", "Error During Check"}) =>
          /\ report = conflict_details
          /\ status = "Conflict Detected" <=> conflict_details # <<>>

(* C7 witness: check_mission_conflicts has returned "Conflict Detected"    *)
(* for a call whose only records are waypoint collisions.                  *)
C7_Witness ==
    /\ pc = "idle"
    /\ status = "Conflict Detected"
    /\ report # <<>>
    /\ \A n \in 1..Len(report) : report[n].kind = "WaypointCollision"

(* C8: an invocation of find_conflicts on the arguments of the first       *)
(* invocation returns the verdict and the records, in the order, that the  *)
(* first invocation returned, whatever was invoked in between.             *)
C8_Determinism ==
    (Returned /\ first # None /\ passed = first.inputs) =>
        /\ conflict_found = first.found
        /\ conflict_details = first.details

(* C8 witness: the first arguments are invoked again, with records, after  *)
(* an invocation on other arguments that also returned records.            *)
C8_Witness ==
    /\ Returned
    /\ first # None
    /\ first.others = 1
    /\ passed = first.inputs
    /\ conflict_details # <<>>
    /\ report # <<>>
    /\ report # conflict_details

(* C9: while find_conflicts runs and when it has returned, the primary     *)
(* mission, every simulated mission and the safety buffer are as passed.   *)
C9_InputsUnchanged ==
    pc \in {"loop", "returned"} =>
        /\ primary_mission = passed.primary
        /\ simulated_missions = passed.sims
        /\ safety_buffer = passed.buffer

(* C9 witness: find_conflicts has returned records for a primary of three  *)
(* waypoints and two simulated missions of at least two waypoints.         *)
C9_Witness ==
    /\ Returned
    /\ Len(primary_mission.waypoints) = 3
    /\ Len(simulated_missions) = 2
    /\ \A k \in 1..2 : Len(simulated_missions[k].waypoints) >= 2
    /\ conflict_details # <<>>

(* C10: for every hhmm in [0, 2359] whose last two digits are at most 59,  *)
(* written hhmm = 100*h + m, _parse_hhmm_to_minutes returns 60*h + m, a    *)
(* value in [0, 1439].                                                     *)
C10_ParseValidClock ==
    (minutes # None /\ 0 <= hhmm /\ hhmm <= 2359 /\ hhmm % 100 <= 59) =>
        /\ ~minutes.raised
        /\ \E h \in 0..23 : \E m \in 0..59 :
              hhmm = 100 * h + m /\ minutes.value = 60 * h + m
        /\ minutes.value = (hhmm \div 100) * 60 + (hhmm % 100)
        /\ minutes.value \in 0..1439

(* C10 witness: 2359 has been converted to 1439. *)
C10_Witness ==
    minutes # None /\ hhmm = 2359 /\ ~minutes.raised /\ minutes.value = 1439

(* C11: _parse_hhmm_to_minutes raises, and yields no minute value, for     *)
(* every integer below 0 or above 2359 and for every integer in [0, 2359]  *)
(* whose last two digits exceed 59, such as 1460.                          *)
C11_ParseRejectsInvalidClock ==
    (minutes # None /\ (hhmm < 0 \/ hhmm > 2359 \/ hhmm % 100 > 59)) =>
        /\ minutes.raised
        /\ minutes.exception = "ValueError"
        /\ "value" \notin DOMAIN minutes

(* C11 witness: 1460, which is inside [0, 2359], has been rejected by the  *)
(* test of the minute part.                                                *)
C11_Witness ==
    /\ minutes # None
    /\ hhmm = 1460
    /\ minutes.raised
    /\ minutes.message = "Invalid HHMM time value"

(* ---- load_missions_from_json ---- *)
Loaded == loaded # None
ValidClock(v) == 0 <= v /\ v <= 2359 /\ v % 100 <= 59
ClockMinutes(v) == 60 * (v \div 100) + (v % 100)

(* The file holds a JSON object with both missions, and the primary      *)
(* mission has its four keys.                                            *)
HasBothMissions ==
    /\ mission_file # None
    /\ mission_file.exists
    /\ mission_file.json_valid
    /\ {"simulated_missions", "primary_mission"} \subseteq DOMAIN mission_file.content
    /\ {"drone_id", "waypoints", "start_time", "end_time"} \subseteq
           DOMAIN mission_file.content.primary_mission
PrimaryInput == mission_file.content.primary_mission
SimulatedInput == mission_file.content.simulated_missions
StartMinutes == ClockMinutes(PrimaryInput.start_time)
EndMinutes == ClockMinutes(PrimaryInput.end_time)

(* Every simulated mission has its two keys, and every simulated         *)
(* waypoint its four keys and a valid clock time.                        *)
SimulatedWellFormed ==
    \A k \in 1..Len(SimulatedInput) :
        /\ {"drone_id", "waypoints"} \subseteq DOMAIN SimulatedInput[k]
        /\ \A j \in 1..Len(SimulatedInput[k].waypoints) :
              /\ {"x", "y", "z", "timestamp"} \subseteq DOMAIN SimulatedInput[k].waypoints[j]
              /\ ValidClock(SimulatedInput[k].waypoints[j].timestamp)
NoSimulatedWaypoint ==
    \A k \in 1..Len(SimulatedInput) :
        /\ {"drone_id", "waypoints"} \subseteq DOMAIN SimulatedInput[k]
        /\ SimulatedInput[k].waypoints = <<>>
PrimaryPointsWellFormed ==
    \A i \in 1..Len(PrimaryInput.waypoints) :
        DOMAIN PrimaryInput.waypoints[i] = {"x", "y", "z"}
PrimaryClocksValid ==
    ValidClock(PrimaryInput.start_time) /\ ValidClock(PrimaryInput.end_time)
WellFormedFile ==
    /\ HasBothMissions
    /\ SimulatedWellFormed
    /\ Len(PrimaryInput.waypoints) >= 1
    /\ PrimaryPointsWellFormed
    /\ PrimaryClocksValid
    /\ StartMinutes < EndMinutes
LoadedStamps ==
    [i \in 1..Len(loaded.primary_mission.waypoints) |->
        loaded.primary_mission.waypoints[i].timestamp_minutes]

(* C12: when the start and end times of the primary mission are valid     *)
(* clock times and the start is not before the end, load_missions_from_-   *)
(* json ends in an error and yields neither a primary mission nor any      *)
(* timestamp; when nothing earlier in the file is at fault, the error is   *)
(* the ValueError of line 129.                                             *)
C12_WindowRejected ==
    (Loaded /\ HasBothMissions /\ PrimaryClocksValid /\ StartMinutes >= EndMinutes) =>
        /\ loaded.raised
        /\ "primary_mission" \notin DOMAIN loaded
        /\ "value" \notin DOMAIN loaded
        /\ (NoSimulatedWaypoint /\ Len(PrimaryInput.waypoints) >= 1
               /\ PrimaryPointsWellFormed) =>
              /\ loaded.exception = "ValueError"
              /\ loaded.message = "Primary mission start_time must be before end_time"

(* C12 witness: a file whose primary mission starts and ends at 0800 has   *)
(* been rejected by the window test.                                       *)
C12_Witness ==
    /\ Loaded
    /\ HasBothMissions
    /\ PrimaryInput.start_time = 800
    /\ PrimaryInput.end_time = 800
    /\ Len(PrimaryInput.waypoints) = 2
    /\ loaded.raised
    /\ loaded.message = "Primary mission start_time must be before end_time"

(* C13: a primary mission with an empty waypoint list ends in an error,    *)
(* the ValueError of line 102 when the simulated missions raise nothing;   *)
(* and no load returns a primary mission without waypoints.                *)
C13_EmptyPrimaryRejected ==
    /\ (Loaded /\ HasBothMissions /\ PrimaryInput.waypoints = <<>>) =>
          /\ loaded.raised
          /\ NoSimulatedWaypoint =>
                /\ loaded.exception = "ValueError"
                /\ loaded.message = "Primary mission must have at least one waypoint"
    /\ (Loaded /\ ~loaded.raised) => Len(loaded.primary_mission.waypoints) >= 1

(* C13 witness: a file with valid times, no simulated mission and an empty *)
(* primary waypoint list has been rejected by line 102.                    *)
C13_Witness ==
    /\ Loaded
    /\ HasBothMissions
    /\ PrimaryInput.waypoints = <<>>
    /\ SimulatedInput = <<>>
    /\ PrimaryClocksValid
    /\ StartMinutes < EndMinutes
    /\ loaded.raised
    /\ loaded.message = "Primary mission must have at least one waypoint"

(* C14: given a well-formed file, load_missions_from_json returns          *)
(* missions; the primary mission has one waypoint per input point, in      *)
(* input order, each with the x, y and z of its point and a timestamp.     *)
C14_WellFormedFileLoads ==
    (Loaded /\ WellFormedFile) =>
        /\ ~loaded.raised
        /\ Len(loaded.primary_mission.waypoints) = Len(PrimaryInput.waypoints)
        /\ \A i \in 1..Len(PrimaryInput.waypoints) :
              /\ loaded.primary_mission.waypoints[i].x = PrimaryInput.waypoints[i].x
              /\ loaded.primary_mission.waypoints[i].y = PrimaryInput.waypoints[i].y
              /\ loaded.primary_mission.waypoints[i].z = PrimaryInput.waypoints[i].z
              /\ "timestamp_minutes" \in DOMAIN loaded.primary_mission.waypoints[i]

AllPointsIdentical ==
    \A i \in 1..Len(PrimaryInput.waypoints) :
        PrimaryInput.waypoints[i] = PrimaryInput.waypoints[1]

(* C15: for a well-formed file whose primary mission has one waypoint, or  *)
(* several waypoints with identical coordinates, the load returns a        *)
(* primary mission all of whose timestamps equal the start time.           *)
C15_DegenerateTiming ==
    (Loaded /\ WellFormedFile /\ AllPointsIdentical) =>
        /\ ~loaded.raised
        /\ \A i \in 1..Len(LoadedStamps) : LoadedStamps[i] = StartMinutes

ScenarioA ==
    MissionFile([simulated_missions |-> <<>>,
                 primary_mission |->
                     PrimaryData(<<RawPoint(0, 0, 10), RawPoint(100, 0, 10)>>,
                                 <<800, 810>>)])

(* C16: for a well-formed file whose primary mission has two waypoints     *)
(* with distinct coordinates, the load returns a primary mission whose     *)
(* first timestamp is the start and whose last is the end; Scenario A      *)
(* gives the timestamps 480 and 490.                                       *)
C16_TwoWaypointRoundTrip ==
    /\ (Loaded /\ WellFormedFile /\ Len(PrimaryInput.waypoints) = 2
           /\ PrimaryInput.waypoints[1] # PrimaryInput.waypoints[2]) =>
          /\ ~loaded.raised
          /\ LoadedStamps[1] = StartMinutes
          /\ LoadedStamps[2] = EndMinutes
    /\ (Loaded /\ mission_file = ScenarioA) =>
          /\ ~loaded.raised
          /\ LoadedStamps = <<480, 490>>

(* C17: for a well-formed file the timing model assigns each waypoint of   *)
(* the primary mission a timestamp, and each lies in [start, end].         *)
C17_StampsWithinWindow ==
    (Loaded /\ WellFormedFile) =>
        /\ ~loaded.raised
        /\ Len(LoadedStamps) = Len(PrimaryInput.waypoints)
        /\ \A i \in 1..Len(LoadedStamps) :
              StartMinutes <= LoadedStamps[i] /\ LoadedStamps[i] <= EndMinutes

SegmentsForward(waypoints) ==
    \A n \in 1..Len(get_path_segments(waypoints)) :
        get_path_segments(waypoints)[n][1].timestamp_minutes <=
            get_path_segments(waypoints)[n][2].timestamp_minutes

(* C18: for a well-formed file the loader hands over a primary mission     *)
(* and simulated missions whose waypoints are in non-decreasing timestamp  *)
(* order, so that every segment of get_path_segments starts no later than  *)
(* it ends.                                                                *)
C18_LoadedMissionsTimeOrdered ==
    (Loaded /\ WellFormedFile) =>
        /\ ~loaded.raised
        /\ TimeOrdered(loaded.primary_mission.waypoints)
        /\ SegmentsForward(loaded.primary_mission.waypoints)
        /\ \A k \in 1..Len(loaded.simulated_missions) :
              /\ TimeOrdered(loaded.simulated_missions[k].waypoints)
              /\ SegmentsForward(loaded.simulated_missions[k].waypoints)

(* C19: for a primary mission of n >= 2 waypoints find_conflicts works on  *)
(* exactly n-1 segments, the i-th being (waypoints[i], waypoints[i+1]) in  *)
(* mission order, and on no segment for a mission of 0 or 1 waypoints.     *)
C19_SegmentsAreConsecutivePairs ==
    pc \in {"loop", "returned"} =>
        /\ Len(passed.primary.waypoints) >= 2 =>
              /\ Len(primary_segments) = Len(passed.primary.waypoints) - 1
              /\ \A i \in 1..(Len(passed.primary.waypoints) - 1) :
                    /\ primary_segments[i][1] = passed.primary.waypoints[i]
                    /\ primary_segments[i][2] = passed.primary.waypoints[i + 1]
        /\ Len(passed.primary.waypoints) < 2 => primary_segments = <<>>

(* C19 witness: the segments of a primary mission of three waypoints, the  *)
(* second segment ending at another point than the first.                  *)
C19_Witness ==
    /\ pc = "loop"
    /\ Len(passed.primary.waypoints) = 3
    /\ Len(primary_segments) = 2
    /\ primary_segments[1][2] = primary_segments[2][1]
    /\ primary_segments[2][2] # primary_segments[1][2]

Earlier(segment) ==
    IF segment[1].timestamp_minutes <= segment[2].timestamp_minutes
    THEN segment[1].timestamp_minutes
    ELSE segment[2].timestamp_minutes
Later(segment) ==
    IF segment[1].timestamp_minutes <= segment[2].timestamp_minutes
    THEN segment[2].timestamp_minutes
    ELSE segment[1].timestamp_minutes
TouchingAt490 == <<P3(50, 3, 0, 490), P3(50, 20, 0, 495)>>
InstantAt485 == <<P3(50, 3, 0, 485), P3(50, 3, 0, 485)>>
XAxisReversed == <<P3(100, 0, 0, 490), P3(0, 0, 0, 480)>>

(* C20: two segments in spatial conflict are in spatio-temporal conflict   *)
(* exactly when s1 <= e2 and s2 <= e1, where [s, e] is the earlier and the *)
(* later endpoint timestamp of a segment in whichever order they come; the *)
(* result is the same with the two segments exchanged; windows that touch  *)
(* in one minute, and windows of a single instant, overlap.                *)
C20_TemporalOverlap ==
    (probe # None /\ probe.evaluated) =>
        /\ probe.spatio_temporal <=>
              ( /\ probe.spatial
                /\ Earlier(probe.segment1) <= Later(probe.segment2)
                /\ Earlier(probe.segment2) <= Later(probe.segment1) )
        /\ probe.spatio_temporal_swapped <=> probe.spatio_temporal
        /\ ProbeIs(XAxis, TouchingAt490, C(5)) => probe.spatio_temporal
        /\ ProbeIs(XAxisReversed, TouchingAt490, C(5)) => probe.spatio_temporal
        /\ ProbeIs(XAxis, InstantAt485, C(5)) => probe.spatio_temporal

(* C20 witness: the window [480, 490], given with its endpoints reversed,  *)
(* against the window [490, 495] of a segment 3 away.                      *)
C20_Witness ==
    /\ ProbeIs(XAxisReversed, TouchingAt490, C(5))
    /\ probe.spatial
    /\ probe.spatio_temporal
    /\ probe.spatio_temporal_swapped

(* ---- distance_point_to_segment_3d ---- *)
ProbeEvaluated == probe # None /\ probe.evaluated
ProbePoint == probe.segment2[1]
SegStart == probe.segment1[1]
SegEnd == probe.segment1[2]

SquaredLength(a, b) == _vector_norm_sq(_subtract_vectors(a, b))
IsZero(p) == PSign(p) = 0
SamePlace(a, b) == IsZero(SquaredLength(a, b))
Along(P, S, E) == _dot_product(_subtract_vectors(P, S), _subtract_vectors(E, S))
CrossProduct(u, v) ==
    [x |-> PSub(PMul(u.y, v.z), PMul(u.z, v.y)),
     y |-> PSub(PMul(u.z, v.x), PMul(u.x, v.z)),
     z |-> PSub(PMul(u.x, v.y), PMul(u.y, v.x))]
AcrossSquared(P, S, E) ==
    _vector_norm_sq(CrossProduct(_subtract_vectors(P, S), _subtract_vectors(E, S)))
OnLine(P, S, E) == IsZero(AcrossSquared(P, S, E))

(* P lies on the segment; on its line before S; on its line after E. *)
OnSegment(P, S, E) ==
    IF SamePlace(S, E)
    THEN SamePlace(P, S)
    ELSE /\ OnLine(P, S, E)
         /\ PSign(Along(P, S, E)) >= 0
         /\ ~PLess(SquaredLength(E, S), Along(P, S, E))
BeyondStart(P, S, E) ==
    ~SamePlace(S, E) /\ OnLine(P, S, E) /\ PSign(Along(P, S, E)) < 0
BeyondEnd(P, S, E) ==
    ~SamePlace(S, E) /\ OnLine(P, S, E) /\ PLess(SquaredLength(E, S), Along(P, S, E))
IsDegenerate(S, E) == PLess(SquaredLength(E, S), FLOAT_TOLERANCE)

(* Squared distances as fractions num/den; two fractions of the model    *)
(* have equal denominators or one of them has denominator 1.             *)
Squared(a, b) == [num |-> SquaredLength(a, b), den |-> PInt(1)]
SameFraction(a, b) ==
    IF a.den = b.den THEN a.num = b.num
    ELSE PMul(a.num, b.den) = PMul(b.num, a.den)
FractionLess(a, b) ==
    IF a.den = b.den THEN PLess(a.num, b.num)
    ELSE PLess(PMul(a.num, b.den), PMul(b.num, a.den))

(* The squared distance from P to the nearest point of the segment: to   *)
(* S or E when the foot of the perpendicular falls outside, else the     *)
(* distance to the line, |(P - S) x (E - S)| / |E - S|.                  *)
NearestSquared(P, S, E) ==
    IF SamePlace(S, E) THEN Squared(P, S)
    ELSE IF PSign(Along(P, S, E)) <= 0 THEN Squared(P, S)
    ELSE IF ~PLess(Along(P, S, E), SquaredLength(E, S)) THEN Squared(P, E)
    ELSE [num |-> AcrossSquared(P, S, E), den |-> SquaredLength(E, S)]

(* The three cases of the claim and the nearest-point property, for the  *)
(* evaluated point and segment.                                          *)
DistanceIsNearest ==
    /\ OnSegment(ProbePoint, SegStart, SegEnd) => IsZero(probe.distance.num)
    /\ BeyondStart(ProbePoint, SegStart, SegEnd) =>
          SameFraction(probe.distance, Squared(ProbePoint, SegStart))
    /\ BeyondEnd(ProbePoint, SegStart, SegEnd) =>
          SameFraction(probe.distance, Squared(ProbePoint, SegEnd))
    /\ SameFraction(probe.distance, NearestSquared(ProbePoint, SegStart, SegEnd))
DegenerateGivesStart ==
    IsDegenerate(SegStart, SegEnd) =>
        SameFraction(probe.distance, Squared(ProbePoint, SegStart))

TotalLength == path_length(PrimaryInput.waypoints, Len(PrimaryInput.waypoints) - 1)
PositiveLength ==
    /\ Len(PrimaryInput.waypoints) >= 2
    /\ PSign(TotalLength) > 0

(* The exact constant-speed arrival time at waypoint i:                  *)
(* start + duration * cumulative distance / total distance.              *)
ArrivalTime(i) ==
    RAdd(RInt(StartMinutes),
         [num |-> PMul(PInt(EndMinutes - StartMinutes),
                       path_length(PrimaryInput.waypoints, i - 1)),
          den |-> TotalLength])
(* |t - ArrivalTime(i)| <= 1/2 for an integer t. *)
WithinHalfMinute(t, i) ==
    LET off == RSub(RInt(t), ArrivalTime(i))
    IN  ~PLess(off.den, PMul(PInt(2), PAbs(off.num)))

(* C22: for a well-formed file whose primary mission has positive total   *)
(* length the load returns a primary mission in which every waypoint      *)
(* after the first has the timestamp                                      *)
(* min(round(start + duration * cumulative / total), end), which is       *)
(* within half a minute of the exact constant-speed arrival time.         *)
C22_TimingFormula ==
    (Loaded /\ WellFormedFile /\ PositiveLength) =>
        /\ ~loaded.raised
        /\ \A i \in 2..Len(PrimaryInput.waypoints) :
              /\ LoadedStamps[i] = Min(round(ArrivalTime(i)), EndMinutes)
              /\ WithinHalfMinute(LoadedStamps[i], i)

(* The timestamp computed for the last waypoint at line 182, before the  *)
(* adjustment of lines 187-189.                                          *)
ComputedLast ==
    Min(round(current_time_minutes_after(
                  PrimaryInput.waypoints, StartMinutes, EndMinutes,
                  Len(PrimaryInput.waypoints) - 1)),
        EndMinutes)

(* C25: for a well-formed file whose primary mission has at least two     *)
(* waypoints and positive total length, whatever their number, the load   *)
(* returns a primary mission whose last timestamp is the end time, and    *)
(* the timestamp computed for it is never more than a minute from the end *)
(* time.                                                                  *)
C25_LastStampIsEnd ==
    (Loaded /\ WellFormedFile /\ PositiveLength) =>
        /\ ~loaded.raised
        /\ LoadedStamps[Len(LoadedStamps)] = EndMinutes
        /\ EndMinutes - ComputedLast <= 1
        /\ ComputedLast - EndMinutes <= 1

(* ---- crossing segments ---- *)
(* The point of segment a at the fraction k/n of its length, times n. *)
PointTimes(a, k, n) ==
    [x |-> PAdd(PMul(PInt(n - k), Lift(a[1].x)), PMul(PInt(k), Lift(a[2].x))),
     y |-> PAdd(PMul(PInt(n - k), Lift(a[1].y)), PMul(PInt(k), Lift(a[2].y))),
     z |-> PAdd(PMul(PInt(n - k), Lift(a[1].z)), PMul(PInt(k), Lift(a[2].z)))]
Times(v, m) ==
    [x |-> PMul(PInt(m), v.x), y |-> PMul(PInt(m), v.y), z |-> PMul(PInt(m), v.z)]
(* The segments have a common point strictly between the endpoints of    *)
(* each: at a half, a third or two thirds of either.                     *)
CrossStrictly(a, b) ==
    \E n \in 2..3, m \in 2..3 :
        \E k \in 1..(n - 1), l \in 1..(m - 1) :
            Times(PointTimes(a, k, n), m) = Times(PointTimes(b, l, m), n)
(* None of the four endpoint-to-segment distances is below the buffer. *)
EndpointsAtLeastBuffer(a, b, buf) ==
    /\ ~DistanceLess(distance_point_to_segment_3d(a[1], b[1], b[2]), Lift(buf))
    /\ ~DistanceLess(distance_point_to_segment_3d(a[2], b[1], b[2]), Lift(buf))
    /\ ~DistanceLess(distance_point_to_segment_3d(b[1], a[1], a[2]), Lift(buf))
    /\ ~DistanceLess(distance_point_to_segment_3d(b[2], a[1], a[2]), Lift(buf))
Crossing483 == <<P3(50, -10, 0, 483), P3(50, 10, 0, 486)>>

C26_ChecksSymmetric ==
    ProbeEvaluated =>
        /\ probe.spatial_swapped = probe.spatial
        /\ probe.spatio_temporal_swapped = probe.spatio_temporal
        /\ probe.collision_swapped = probe.collision

(* C26 witness: (0,0,0) -> (100,0,0) against (50,3,0) -> (50,20,0) with    *)
(* buffer 5: only an endpoint of the second segment is within the buffer   *)
(* of the other segment, and both orders of the arguments report the       *)
(* conflict.                                                               *)
C26_Witness ==
    /\ ProbeIs(XAxis, Vertical(C(3)), C(5))
    /\ ~check_segment_spatial_conflict_one_sided(probe.segment1, probe.segment2, C(5))
    /\ check_segment_spatial_conflict_one_sided(probe.segment2, probe.segment1, C(5))
    /\ probe.spatial /\ probe.spatial_swapped
    /\ probe.spatio_temporal /\ probe.spatio_temporal_swapped

(* ---- exceptions of the checks ---- *)
CallStarted == pc \in {"loop", "returned", "raised"}

(* C24: find_conflicts never ends by an exception, and for every pair of   *)
(* a primary segment and a simulated segment of a call,                    *)
(* check_segment_spatial_conflict and the four calls of                    *)
(* distance_point_to_segment_3d it is built from return a value.           *)
C24_NoErrorOutcome ==
    /\ pc # "raised"
    /\ CallStarted =>
          \A k \in SimPositions :
            \A i \in 1..Len(PrimarySegmentsOfCall) :
              \A j \in 1..Len(SimSegmentsOfCall(k)) :
                LET a == PrimarySegmentsOfCall[i]
                    b == SimSegmentsOfCall(k)[j]
                IN  /\ ~distance_point_to_segment_3d_call(a[1], b[1], b[2]).raised
                    /\ ~distance_point_to_segment_3d_call(a[2], b[1], b[2]).raised
                    /\ ~distance_point_to_segment_3d_call(b[1], a[1], a[2]).raised
                    /\ ~distance_point_to_segment_3d_call(b[2], a[1], a[2]).raised
                    /\ ~check_segment_spatial_conflict_call(a, b, passed.buffer).raised

(* ---- waypoint collisions and the segments around them ---- *)
(* The positions, in get_path_segments, of the segments that have        *)
(* waypoint i of a list of n waypoints as an endpoint.                   *)
IncidentSegments(i, n) == {s \in {i - 1, i} : 1 <= s /\ s <= n - 1}
BufferAtLeastOne == ~PLess(Lift(passed.buffer), PInt(1))
SameMinuteAndPlace(p, w) ==
    /\ p.timestamp_minutes = w.timestamp_minutes
    /\ Within1e9(p.x, w.x)
    /\ Within1e9(p.y, w.y)
    /\ Within1e9(p.z, w.z)

(* C27: when find_conflicts has returned with a buffer of at least 1, and  *)
(* reports a waypoint collision between primary waypoint i and waypoint j  *)
(* of a simulated mission, both missions having at least two waypoints, it *)
(* also reports a segment conflict between every primary segment with      *)
(* endpoint i and every segment of that mission with endpoint j.           *)
C27_CollisionImpliesSegmentConflicts ==
    (Returned /\ BufferAtLeastOne) =>
        \A k \in SimPositions :
          \A i \in 1..Len(passed.primary.waypoints) :
            \A j \in 1..Len(passed.sims[k].waypoints) :
              ( /\ HasWaypointRecord(k, i, j)
                /\ Len(passed.primary.waypoints) >= 2
                /\ Len(passed.sims[k].waypoints) >= 2 ) =>
                  \A ps \in IncidentSegments(i, Len(passed.primary.waypoints)) :
                    \A ss \in IncidentSegments(j, Len(passed.sims[k].waypoints)) :
                      HasSegmentRecord(k, ps, ss)

(* C27 witness: the primary (0,0,0)@480 -> (100,0,0)@490 -> (10,10,5)@500  *)
(* meets the simulated (50,3,0)@486 -> (100,0,0)@490 at its middle         *)
(* waypoint, and both primary segments are reported against the simulated  *)
(* segment.                                                                *)
C27_Witness ==
    /\ Returned
    /\ BufferAtLeastOne
    /\ Len(passed.primary.waypoints) = 3
    /\ Len(passed.sims) >= 1
    /\ Len(passed.sims[1].waypoints) = 2
    /\ HasWaypointRecord(1, 2, 2)
    /\ HasSegmentRecord(1, 1, 1)
    /\ HasSegmentRecord(1, 2, 1)

(* C28: a primary mission of one waypoint yields no segment-conflict       *)
(* record at all, and a simulated mission of one waypoint none that names  *)
(* it; such a mission is reported exactly when one of its waypoints and a  *)
(* waypoint of the other mission are at the same place in the same minute. *)
C28_SingleWaypointNoSegmentCheck ==
    Returned =>
        /\ Len(passed.primary.waypoints) = 1 =>
              /\ SegmentRecords = <<>>
              /\ conflict_found <=>
                    \E k \in SimPositions :
                      \E j \in 1..Len(passed.sims[k].waypoints) :
                        SameMinuteAndPlace(passed.primary.waypoints[1],
                                           passed.sims[k].waypoints[j])
        /\ \A k \in SimPositions :
              Len(passed.sims[k].waypoints) = 1 =>
                /\ \A n \in 1..Len(SegmentRecords) : SegmentRecords[n].sim # k - 1
                /\ (\E n \in 1..Len(conflict_details) : conflict_details[n].sim = k - 1)
                      <=> \E i \in 1..Len(passed.primary.waypoints) :
                            SameMinuteAndPlace(passed.primary.waypoints[i],
                                               passed.sims[k].waypoints[1])

(* C28 witness: the simulated mission is the single waypoint (50,3,0)@485, *)
(* 3 away from the primary path (0,0,0)@480 -> (100,0,0)@490 with buffer   *)
(* 5, and find_conflicts has returned without a record.                    *)
C28_Witness ==
    /\ Returned
    /\ passed.primary.waypoints = XAxis
    /\ passed.buffer = C(5)
    /\ Len(passed.sims) = 1
    /\ passed.sims[1].waypoints = <<P3(50, 3, 0, 485)>>
    /\ DistanceLess(distance_point_to_segment_3d(P3(50, 3, 0, 485), XAxis[1], XAxis[2]),
                    PSub(Lift(C(5)), FLOAT_TOLERANCE))
    /\ ~conflict_found
    /\ conflict_details = <<>>

BufferNotPositive == PSign(Lift(passed.buffer)) <= 0
Twin500 == <<P3(10, 10, 5, 500), P3(10, 10, 9, 500)>>

(* C29: a call of find_conflicts with a buffer of 0 or below is carried    *)
(* out like any other and does not end by an exception; it appends no      *)
(* segment-conflict record, and it has a waypoint-collision record for     *)
(* exactly the waypoint pairs at the same place in the same minute.        *)
C29_NonPositiveBufferUnchecked ==
    (CallStarted /\ BufferNotPositive) =>
        /\ pc # "raised"
        /\ SegmentRecords = <<>>
        /\ Returned =>
              \A k \in SimPositions :
                \A i \in 1..Len(passed.primary.waypoints) :
                  \A j \in 1..Len(passed.sims[k].waypoints) :
                    HasWaypointRecord(k, i, j) <=>
                        SameMinuteAndPlace(passed.primary.waypoints[i],
                                           passed.sims[k].waypoints[j])

(* C29 witness: with buffer -5 the primary (10,10,5)@500 -> (10,10,9)@500  *)
(* against an identical simulated mission has returned two waypoint        *)
(* collisions and no segment conflict, and check_mission_conflicts then    *)
(* reports them.                                                           *)
C29_Witness ==
    /\ Returned
    /\ passed.buffer = C(-5)
    /\ passed.primary.waypoints = Twin500
    /\ Len(passed.sims) = 1
    /\ passed.sims[1].waypoints = Twin500
    /\ SegmentRecords = <<>>
    /\ Len(WaypointRecords) = 2
    /\ conflict_found

(* ---- check_mission_conflicts as a whole ---- *)
RunDone == run # None
LoadOutcome == load_missions_from_json(mission_file)
CheckOutcome ==
    find_conflicts(LoadOutcome.primary_mission, LoadOutcome.simulated_missions,
                   run.safety_buffer)
IsPrefix(s, t) == Len(s) <= Len(t) /\ \A n \in 1..Len(s) : s[n] = t[n]
RunWithWorkingPlot ==
    check_mission_conflicts(mission_file, run.safety_buffer, run.show_plot, FALSE)

(* C30: every call of check_mission_conflicts ends by returning a status;  *)
(* it calls load_missions_from_json, then find_conflicts, then             *)
(* plot_missions, as far as it gets.  When the load raises                 *)
(* FileNotFoundError, ValueError or KeyError the status is 'Error Loading  *)
(* Mission' with one detail and no missions, and neither find_conflicts    *)
(* nor plot_missions is called; when find_conflicts raises, the status is  *)
(* 'Error During Check' and the loaded missions are returned; when         *)
(* plot_missions raises, status and details are those of a call whose plot *)
(* succeeds.                                                               *)
C30_FailuresBecomeStatuses ==
    RunDone =>
        /\ ~run.outcome.raised
        /\ IsPrefix(run.outcome.called,
                    <<"load_missions_from_json", "find_conflicts", "plot_missions">>)
        /\ (LoadOutcome.raised /\ LoadOutcome.exception \in LoadErrors) =>
              /\ run.outcome.status = "Error Loading Mission"
              /\ Len(run.outcome.details) = 1
              /\ run.outcome.primary_mission = None
              /\ run.outcome.simulated_missions = None
              /\ run.outcome.called = <<"load_missions_from_json">>
        /\ (~LoadOutcome.raised /\ CheckOutcome.raised) =>
              /\ run.outcome.status = "Error During Check"
              /\ run.outcome.primary_mission = LoadOutcome.primary_mission
              /\ run.outcome.simulated_missions = LoadOutcome.simulated_missions
        /\ (~LoadOutcome.raised /\ ~CheckOutcome.raised) =>
              /\ run.outcome.status \in {"Clear", "Conflict Detected"}
              /\ Len(run.outcome.called) >= 2
        /\ run.outcome.plot_warning =>
              /\ run.outcome.status = RunWithWorkingPlot.status
              /\ run.outcome.details = RunWithWorkingPlot.details

====
